---- MODULE Spec2Model ----
(***************************************************************************)
(* A model of the Android Auto head-unit protocol engine.                  *)
(*                                                                         *)
(*   SpecEnc  the frame encoder: build_multi_frame, build_vec, and the     *)
(*            decoder applied to what the encoder emitted                  *)
(*   SpecRx   the receive path of handle_client: FrameHeaderReceiver,      *)
(*            AndroidAutoFrameReceiver and the reassembly buffer           *)
(*   Spec     one session: set-up, VERSION_REQUEST, the read loop and the  *)
(*            channel handlers writing frames to the transport             *)
(*   SpecMux  the transport mux: the tasks of a session calling read_frame *)
(*            and write_frame through the reader, writer and TLS guards    *)
(*   SpecHandlers  the channel handlers with the integration's callbacks   *)
(*            (wait_for_focus, binding_request, start_sensor, receive_     *)
(*            audio) as steps of their own                                 *)
(*   SpecAlign  the receive path with a peer that also sends frames whose  *)
(*            channel_id byte is no ChannelId                              *)
(*   SpecLive the loop and its handlers with the peer's messages waiting   *)
(*            in the transport until the loop reads them, under fairness   *)
(*   SpecNav  the handlers of a session whose peer sends navigation and    *)
(*            control messages                                             *)
(*   SpecListen  wifi_listen: the accept loop around handle_client         *)
(***************************************************************************)
EXTENDS Integers, Sequences, FiniteSets, TLC

VARIABLES
    \* ---- SpecEnc
    epc,        \* position of the encoder run: "in", "split", "wire", "done"
    ein,        \* the input: [f |-> FrameHeader, len |-> payload length, seed |-> payload pattern]
    eframes,    \* Vec<AndroidAutoFrame> to be written
    ebytes,     \* build_vec of each frame of eframes
    edec,       \* the decoder's reading of each element of ebytes
    \* ---- SpecRx
    stream,     \* bytes the peer has written that the read loop has not consumed
    fr2,        \* the AndroidAutoFrameReceiver of handle_client: [len, rx_sofar]
    rx_src,     \* history: the frame each element of fr2.rx_sofar came from
    delivered,  \* logical messages handed to a channel handler, in order
    sentlog,    \* history: the frames the peer has sent, [channel_id, ftype, enc, payload]
    big,        \* whether the peer sends full-size (16384-byte) fragments
    calls_open, \* receive_data calls of the loop that have not returned
    \* ---- Spec
    pc,               \* position of handle_client: "accept", "hello", "loop", "ended", "panic"
    supports_video,   \* whether main.supports_video() is Some
    supports_input,   \* whether main.supports_input() is Some
    video_session,    \* the video handler's inner.session: << >> for None, << s >> for Some(s)
    channel_handlers, \* Vec<ChannelHandler>, the handler kinds in push order
    channels,         \* the descriptors handed to the control handler by set_channels
    ssl_client,       \* the rustls ClientConnection: [handshaking, wants_write]
    wire,             \* the frames written to the transport, in order
    rxlog,            \* history: the logical messages the read loop has dispatched
    result,           \* what handle_client returned: "running", an error text, or "panic"
    handshake_starts, \* history: the number of times start_handshake was invoked
    \* ---- SpecMux
    task_pc,          \* position of each task inside read_frame / write_frame
    guard_owner,      \* the task holding each guard ("reader", "writer", "tls"), or "free"
    task_frame,       \* the frame each task is writing (its place in granted)
    task_pos,         \* bytes of that frame the task has written
    mux_wire,         \* the bytes on the wire, each <<frame, offset>>
    granted,          \* history: the tasks in the order the writer guard was granted
    frames_read,      \* number of read_frame calls that returned
    \* ---- SpecHandlers
    hpc,              \* position of the loop: "loop", inside a handler, "ended", "panic"
    hcfg,             \* the integration's capabilities [video, input, audio_output,
                      \* audio_input], and
                      \* whether the build checks integer overflow
    hlog,             \* history: the logical messages dispatched
    hwire,            \* frames written, each [frame, req] with the request that caused it
    hcalls,           \* history: calls of the integration that returned, [call, req, arg]
    hresult,          \* what the loop returned: "running", an error text, or "panic"
    inbox,            \* messages the peer has written that the loop has not read
    \* ---- SpecListen
    lpc,              \* position of wifi_listen: "accept", "session", "stopped"
    ended,            \* history: the terminal event of each session that ended
    llog              \* the errors wifi_listen has logged

encVars == <<epc, ein, eframes, ebytes, edec>>
rxVars == <<stream, fr2, rx_src, delivered, sentlog, big, calls_open>>
sessVars == <<pc, supports_video, supports_input, video_session, channel_handlers, channels,
              ssl_client, wire, rxlog, result, handshake_starts>>
muxVars == <<task_pc, guard_owner, task_frame, task_pos, mux_wire, granted, frames_read>>
hVars == <<hpc, hcfg, hlog, hwire, hcalls, hresult, inbox>>
lVars == <<lpc, ended, llog>>
vars == <<epc, ein, eframes, ebytes, edec, stream, fr2, rx_src, delivered, sentlog, big,
          calls_open,
          pc, supports_video, supports_input, video_session, channel_handlers, channels,
          ssl_client, wire, rxlog, result, handshake_starts,
          task_pc, guard_owner, task_frame, task_pos, mux_wire, granted, frames_read,
          hpc, hcfg, hlog, hwire, hcalls, hresult, inbox, lpc, ended, llog>>

\* the variables of a specification that is not running
EncOff ==
    epc = "off" /\ ein = << >> /\ eframes = << >> /\ ebytes = << >> /\ edec = << >>

RxOff ==
    /\ stream = << >> /\ fr2 = [len |-> << >>, rx_sofar |-> << >>] /\ rx_src = << >>
    /\ delivered = << >> /\ sentlog = << >> /\ big = FALSE /\ calls_open = 0

SessOff ==
    /\ pc = "off" /\ supports_video = FALSE /\ channel_handlers = << >>
    /\ supports_input = FALSE /\ video_session = << >>
    /\ channels = << >> /\ ssl_client = << >> /\ wire = << >> /\ rxlog = << >>
    /\ result = "off" /\ handshake_starts = 0

MuxOff ==
    /\ task_pc = << >> /\ guard_owner = << >> /\ task_frame = << >> /\ task_pos = << >>
    /\ mux_wire = << >> /\ granted = << >> /\ frames_read = 0

HOff ==
    /\ hpc = "off" /\ hcfg = << >> /\ hlog = << >> /\ hwire = << >> /\ hcalls = << >>
    /\ hresult = "off" /\ inbox = << >>

LOff ==
    lpc = "off" /\ ended = << >> /\ llog = << >>

---------------------------------------------------------------------------
(* Bounds of the model *)

\* payload patterns 0..MaxSeed of the encoder runs
MaxSeed == 1
\* frames the peer sends in a receive run
MaxRxFrames == 3
\* logical messages the read loop dispatches in a session
MaxFrames == 3
\* write_frame calls made on the transport mux
MaxWrites == 3
\* read_frame calls made on the transport mux
MaxReads == 2
\* bytes of an encoded frame on the mux's wire
FrameBytes == 2
\* logical messages dispatched to the handlers of SpecHandlers
MaxHandled == 2
\* messages the peer writes in a session of SpecLive
MaxSent == 3
\* connections wifi_listen accepts
MaxSessions == 3

---------------------------------------------------------------------------
(* Integers of the wire format *)

Min(a, b) == IF a < b THEN a ELSE b

\* u16::to_be_bytes of (n as u16)
U16BE(n) == << (n % 65536) \div 256, n % 256 >>

\* u16::from_be_bytes
U16FromBE(hi, lo) == hi * 256 + lo

\* u32::to_be_bytes
U32BE(n) == << (n \div 16777216) % 256, (n \div 65536) % 256, (n \div 256) % 256, n % 256 >>

RECURSIVE Flatten(_)
\* data.into_iter().flatten().collect()
Flatten(ss) == IF ss = << >> THEN << >> ELSE Head(ss) \o Flatten(Tail(ss))

---------------------------------------------------------------------------
(* FrameHeaderType, FrameHeaderContents, FrameHeader *)

Middle == 0
First == 1
Last == 2
Single == 3

\* impl From<u8> for FrameHeaderType
FrameHeaderType_from(value) == value % 4

\* bitfield: encryption is bit 3, frame type bits 1..0, control bit 2;
\* `impl new` takes the fields in declaration order
FrameHeaderContents_new(encryption, frame_type, control) ==
    (IF encryption THEN 8 ELSE 0) + (IF control THEN 4 ELSE 0) + frame_type

get_encryption(b) == (b \div 8) % 2 = 1

get_frame_type(b) == FrameHeaderType_from(b % 4)

get_control(b) == (b \div 4) % 2 = 1

set_frame_type(b, t) == (b - (b % 4)) + t

FrameHeader(chan, contents) == [channel_id |-> chan, frame |-> contents]

\* FrameHeader::add_to
add_to(h) == << h.channel_id, h.frame >>

AndroidAutoFrame(h, d) == [header |-> h, data |-> d]

---------------------------------------------------------------------------
(* AndroidAutoFrame::build_multi_frame and build_vec *)

MAX_FRAME_DATA_SIZE == 16384

\* slice::chunks
Chunks(d, n) ==
    [k \in 1..((Len(d) + n - 1) \div n) |-> SubSeq(d, (k - 1) * n + 1, Min(k * n, Len(d)))]

\* the test that sends a payload out as one frame
FitsOneFrame(d) == Len(d) < MAX_FRAME_DATA_SIZE

build_multi_frame(f, d) ==
    IF FitsOneFrame(d)
    THEN << AndroidAutoFrame(f, d) >>
    ELSE LET packets == Chunks(d, MAX_FRAME_DATA_SIZE)
             max == Len(packets)
         IN [i \in 1..max |->
                AndroidAutoFrame(
                    [f EXCEPT !.frame = set_frame_type(@,
                        IF i = 1 THEN First ELSE IF i = max THEN Last ELSE Middle)],
                    packets[i])]

\* what rustls' writer + write_tls emit for one plaintext: an application-data
\* record header, the protected bytes and a 16-byte tag
TlsRecord(p) ==
    << 23, 3, 3 >> \o U16BE(Len(p) + 16) \o [i \in 1..Len(p) |-> (p[i] + 1) % 256]
        \o [i \in 1..16 |-> 0]

\* the length area build_vec writes between the header and the payload
LengthArea(frame, data) == U16BE(Len(data))

\* build_vec: header, length area, payload (TLS records when the header says encrypted)
build_vec(frame) ==
    LET data == IF get_encryption(frame.header.frame) THEN TlsRecord(frame.data)
                ELSE frame.data
    IN add_to(frame.header) \o LengthArea(frame, data) \o data

---------------------------------------------------------------------------
(* FrameHeaderReceiver::read and AndroidAutoFrameReceiver::read *)

\* the values of ChannelId: CONTROL..MEDIA_STATUS and NONE
KnownChannelIds == (0..10) \cup {255}

\* impl TryFrom<u8> for ChannelId
ChannelId_try_from(val) == IF val \in KnownChannelIds THEN << val >> ELSE << >>

\* the decrypt closure: the plaintext of the TLS record in the payload
TlsDecrypt(rec) == [i \in 1..(Len(rec) - 21) |-> (rec[5 + i] + 255) % 256]

\* the bytes read before the payload: 6 for a First frame, 2 otherwise
LenAreaSize(flags) == IF get_frame_type(flags) = First THEN 6 ELSE 2

\* One frame read off the front of the byte sequence s: the header, the payload
\* bytes, how many bytes were taken, and whether read_exact had them all.
ReadWire(s) ==
    LET flags == IF Len(s) >= 2 THEN s[2] ELSE 0
        area == LenAreaSize(flags)
        len == IF Len(s) >= 4 THEN U16FromBE(s[3], s[4]) ELSE 0
        need == 2 + area + len
    IN [header |-> FrameHeader(IF s = << >> THEN 0 ELSE s[1], flags),
        payload |-> SubSeq(s, 2 + area + 1, Min(need, Len(s))),
        consumed |-> Min(need, Len(s)),
        complete |-> Len(s) >= need]

\* self.rx_sofar.push(data_plain)
RxPush(rx_sofar, data_plain) == Append(rx_sofar, data_plain)

\* whether the frame of this type completes a logical message
Completes(ftype) == ftype = Last

\* AndroidAutoFrameReceiver::read after the payload was read: the new rx_sofar
\* and the frame returned (<< >> for None)
ReceiverRead(rx_sofar, header, payload) ==
    LET data_plain == IF get_encryption(header.frame) THEN TlsDecrypt(payload) ELSE payload
    IN IF get_frame_type(header.frame) = Single
       THEN [rx_sofar |-> rx_sofar, out |-> << AndroidAutoFrame(header, data_plain) >>]
       ELSE LET pushed == RxPush(rx_sofar, data_plain)
            IN IF Completes(get_frame_type(header.frame))
               THEN [rx_sofar |-> << >>,
                     out |-> << AndroidAutoFrame(header, Flatten(pushed)) >>]
               ELSE [rx_sofar |-> pushed, out |-> << >>]

---------------------------------------------------------------------------
(* SpecEnc: the encoder applied to every input of the bounded sets *)

\* payload lengths around the frame limit, and the 40000-byte message
EncLens == {0, 1, 5, 16383, 16384, 16385, 32768, 40000}

\* a payload whose bytes differ from chunk to chunk
Payload(len, seed) ==
    [i \in 1..len |-> (seed + i + 3 * (i \div 256) + 5 * (i \div 16384)) % 256]

EncChannels == {0, 3}

InputData == Payload(ein.len, ein.seed)

EncInit ==
    /\ epc = "in"
    /\ ein \in [f : {FrameHeader(c, FrameHeaderContents_new(FALSE, t, k)) :
                        c \in EncChannels, t \in {Middle, First, Last, Single},
                        k \in BOOLEAN},
                len : EncLens, seed : 0..MaxSeed]
    /\ eframes = << >>
    /\ ebytes = << >>
    /\ edec = << >>
    /\ RxOff
    /\ SessOff
    /\ MuxOff
    /\ HOff
    /\ LOff

\* the caller hands the payload to build_multi_frame
BuildMultiFrame ==
    /\ epc = "in"
    /\ eframes' = build_multi_frame(ein.f, InputData)
    /\ epc' = "split"
    /\ UNCHANGED <<ein, ebytes, edec>>
    /\ UNCHANGED <<rxVars, sessVars, muxVars, hVars, lVars>>

\* the caller builds one frame itself (a payload that fits a frame)
BuildOneFrame ==
    /\ epc = "in"
    /\ ein.len <= MAX_FRAME_DATA_SIZE
    /\ eframes' = << AndroidAutoFrame(ein.f, InputData) >>
    /\ epc' = "one"
    /\ UNCHANGED <<ein, ebytes, edec>>
    /\ UNCHANGED <<rxVars, sessVars, muxVars, hVars, lVars>>

\* build_vec of every frame
BuildVec ==
    /\ epc \in {"split", "one"}
    /\ ebytes' = [i \in DOMAIN eframes |-> build_vec(eframes[i])]
    /\ epc' = IF epc = "one" THEN "wire1" ELSE "wire"
    /\ UNCHANGED <<ein, eframes, edec>>
    /\ UNCHANGED <<rxVars, sessVars, muxVars, hVars, lVars>>

\* the receiver reads each emitted frame
Decode ==
    /\ epc \in {"wire", "wire1"}
    /\ edec' = [i \in DOMAIN ebytes |-> ReadWire(ebytes[i])]
    /\ epc' = IF epc = "wire1" THEN "done1" ELSE "done"
    /\ UNCHANGED <<ein, eframes, ebytes>>
    /\ UNCHANGED <<rxVars, sessVars, muxVars, hVars, lVars>>

\* the lengths of the messages a handler builds: a short one, and those
\* around the largest value of the 16-bit length field
HandlerLens == {5, 16384, 65535, 65536}

\* A handler converts its message into one Single frame, whatever its length,
\* and calls build_vec on it; the bytes are what it writes to the transport.
WriteHandlerFrame(len, enc) ==
    /\ epc = "in"
    /\ get_frame_type(ein.f.frame) = Single
    /\ ein.len = 0
    /\ LET h == FrameHeader(ein.f.channel_id,
                            FrameHeaderContents_new(enc, Single, get_control(ein.f.frame)))
           frame == AndroidAutoFrame(h, Payload(len, ein.seed))
       IN /\ eframes' = << frame >>
          /\ ebytes' = << build_vec(frame) >>
    /\ epc' = "written"
    /\ UNCHANGED <<ein, edec>>
    /\ UNCHANGED <<rxVars, sessVars, muxVars, hVars, lVars>>

EncNext ==
    \/ BuildMultiFrame
    \/ BuildOneFrame
    \/ BuildVec
    \/ Decode
    \/ \E len \in HandlerLens, enc \in BOOLEAN : WriteHandlerFrame(len, enc)

SpecEnc == EncInit /\ [][EncNext]_vars

---------------------------------------------------------------------------
(* Claims about the encoder and the wire format (SpecEnc) *)

FrameTypes(frames) == [i \in DOMAIN frames |-> get_frame_type(frames[i].header.frame)]

FrameDatas(frames) == [i \in DOMAIN frames |-> frames[i].data]

\* C7 (as stated): decoding the bytes build_vec produced for a well-formed plain
\* frame of any fragment type yields the same header and payload and consumes
\* exactly the bytes emitted.
C7_RoundTripAllTypes ==
    epc = "done1" =>
        /\ edec[1].complete
        /\ edec[1].header = eframes[1].header
        /\ edec[1].payload = eframes[1].data
        /\ edec[1].consumed = Len(ebytes[1])

\* The same round trip, for the fragment types whose length area is 2 bytes.
C7_RoundTripNotFirst ==
    (epc = "done1" /\ get_frame_type(eframes[1].header.frame) # First) =>
        /\ edec[1].complete
        /\ edec[1].header = eframes[1].header
        /\ edec[1].payload = eframes[1].data
        /\ edec[1].consumed = Len(ebytes[1])

\* C8 (as stated): build_multi_frame of a Single header gives one Single frame
\* for a payload of at most 16384 bytes, and First, Middle*, Last otherwise; each
\* frame carries at most 16384 bytes and the payloads concatenate to the input.
C8_SplitByLimit ==
    (epc = "split" /\ get_frame_type(ein.f.frame) = Single) =>
        LET n == Len(eframes)
            ty == FrameTypes(eframes)
        IN /\ Flatten(FrameDatas(eframes)) = InputData
           /\ \A i \in 1..n : Len(eframes[i].data) <= MAX_FRAME_DATA_SIZE
           /\ \A i \in 1..n : eframes[i].header.channel_id = ein.f.channel_id
           /\ ein.len <= MAX_FRAME_DATA_SIZE => (n = 1 /\ ty[1] = Single)
           /\ ein.len > MAX_FRAME_DATA_SIZE =>
                /\ n >= 2
                /\ ty[1] = First
                /\ ty[n] = Last
                /\ \A i \in 2..(n - 1) : ty[i] = Middle
           /\ (n = 1 /\ ty[1] = Single) \/ ty[n] = Last

\* What build_multi_frame does hold to for every payload length.
C8_ChunksConcatenate ==
    epc = "split" =>
        /\ Flatten(FrameDatas(eframes)) = InputData
        /\ \A i \in DOMAIN eframes : Len(eframes[i].data) <= MAX_FRAME_DATA_SIZE

\* C9 (as stated): a First frame is emitted with a 6-byte length area (16-bit
\* length, 32-bit total length) before the payload, every other frame with a
\* 2-byte length area.
C9_FirstHasTotalLength ==
    epc \in {"wire", "wire1"} =>
        \A i \in DOMAIN ebytes :
            LET fr == eframes[i]
                area == IF get_frame_type(fr.header.frame) = First THEN 6 ELSE 2
            IN /\ Len(ebytes[i]) = 2 + area + Len(fr.data)
               /\ SubSeq(ebytes[i], 1, 4) = add_to(fr.header) \o U16BE(Len(fr.data))
               /\ SubSeq(ebytes[i], 2 + area + 1, Len(ebytes[i])) = fr.data
               /\ (epc = "wire" /\ area = 6) => SubSeq(ebytes[i], 5, 8) = U32BE(ein.len)

\* The length area build_vec does write.
C9_LengthAreaIsTwoBytes ==
    epc \in {"wire", "wire1"} =>
        \A i \in DOMAIN ebytes :
            ebytes[i] = add_to(eframes[i].header) \o U16BE(Len(eframes[i].data))
                            \o eframes[i].data

---------------------------------------------------------------------------
(* SpecRx: the peer writes frames, the read loop of handle_client reads them *)

\* the channels the peer sends on: video and media audio
RxChannels == {3, 4}

\* the fragment sizes of the 40000-byte message, and of what follows it
BigSize(k) == IF k <= 2 THEN MAX_FRAME_DATA_SIZE ELSE 40000 - 2 * MAX_FRAME_DATA_SIZE

\* the plaintext payload of the k-th frame the peer sends
PeerPayload(k) == IF big THEN Payload(BigSize(k), k) ELSE << k, 10 + k >>

\* the bytes the peer writes for one frame; a First frame carries the 32-bit
\* total length the receiver skips
PeerWire(chan, ftype, enc, payload) ==
    LET body == IF enc THEN TlsRecord(payload) ELSE payload
    IN << chan, FrameHeaderContents_new(enc, ftype, FALSE) >> \o U16BE(Len(body))
        \o (IF ftype = First THEN U32BE(40000) ELSE << >>) \o body

RxInit ==
    /\ stream = << >>
    /\ fr2 = [len |-> << >>, rx_sofar |-> << >>]
    /\ rx_src = << >>
    /\ delivered = << >>
    /\ sentlog = << >>
    /\ big \in BOOLEAN
    /\ calls_open = 0
    /\ EncOff
    /\ SessOff
    /\ MuxOff
    /\ HOff
    /\ LOff

PeerSend(chan, ftype, enc) ==
    /\ stream = << >>
    /\ Len(sentlog) < MaxRxFrames
    /\ big => (chan = 3 /\ enc)
    /\ LET payload == PeerPayload(Len(sentlog) + 1)
       IN /\ stream' = PeerWire(chan, ftype, enc, payload)
          /\ sentlog' = Append(sentlog,
                [channel_id |-> chan, ftype |-> ftype, enc |-> enc, payload |-> payload])
    /\ UNCHANGED <<fr2, rx_src, delivered, big, calls_open>>
    /\ UNCHANGED <<encVars, sessVars, muxVars, hVars, lVars>>

\* the loop body awaits receive_data: the next iteration starts when no call
\* of the loop is open
LoopFree_Spawned == TRUE
LoopFree == calls_open = 0

\* One iteration of the loop of handle_client: FrameHeaderReceiver::read, then
\* fr2.read, then the dispatch of a completed message to its channel's handler.
ReadLoop ==
    /\ stream # << >>
    /\ LoopFree
    /\ IF ChannelId_try_from(stream[1]) = << >>
       THEN /\ stream' = Tail(stream)
            /\ UNCHANGED <<fr2, rx_src, delivered, calls_open>>
       ELSE LET w == ReadWire(stream)
                r == ReceiverRead(fr2.rx_sofar, w.header, w.payload)
                idx == Len(sentlog)
                single == get_frame_type(w.header.frame) = Single
                srcs == IF single THEN << idx >> ELSE Append(rx_src, idx)
            IN /\ w.complete
               /\ stream' = SubSeq(stream, w.consumed + 1, Len(stream))
               /\ fr2' = [len |-> << >>, rx_sofar |-> r.rx_sofar]
               /\ rx_src' = IF single THEN rx_src
                            ELSE IF r.out # << >> THEN << >> ELSE srcs
               /\ delivered' = IF r.out = << >> THEN delivered
                               ELSE Append(delivered, [frame |-> r.out[1], srcs |-> srcs])
               /\ calls_open' = IF r.out = << >> THEN calls_open ELSE calls_open + 1
    /\ UNCHANGED <<sentlog, big>>
    /\ UNCHANGED <<encVars, sessVars, muxVars, hVars, lVars>>

\* handler.receive_data(f2, ...).await returns
HandlerReturn ==
    /\ calls_open > 0
    /\ calls_open' = calls_open - 1
    /\ UNCHANGED <<stream, fr2, rx_src, delivered, sentlog, big>>
    /\ UNCHANGED <<encVars, sessVars, muxVars, hVars, lVars>>

RxNext ==
    \/ \E chan \in RxChannels, ftype \in {Middle, First, Last, Single}, enc \in BOOLEAN :
            PeerSend(chan, ftype, enc)
    \/ ReadLoop
    \/ HandlerReturn

SpecRx == RxInit /\ [][RxNext]_vars

---------------------------------------------------------------------------
(* SpecAlign: the receive path when the peer also sends frames whose       *)
(* channel_id byte is not a value of ChannelId                             *)

\* the channel_id bytes the peer sends: video, and two that are no ChannelId
AlignChannels == {3, 11, 200}

AlignInit == RxInit /\ ~big

\* read_exact waits for bytes the peer has not written
ReadBlocked ==
    /\ stream # << >>
    /\ ChannelId_try_from(stream[1]) # << >>
    /\ ~ReadWire(stream).complete

\* the peer writes its next frame when the loop has nothing it can read
PeerSendMore(chan, ftype, enc) ==
    /\ stream = << >> \/ ReadBlocked
    /\ Len(sentlog) < MaxRxFrames
    /\ LET payload == PeerPayload(Len(sentlog) + 1)
       IN /\ stream' = stream \o PeerWire(chan, ftype, enc, payload)
          /\ sentlog' = Append(sentlog,
                [channel_id |-> chan, ftype |-> ftype, enc |-> enc, payload |-> payload])
    /\ UNCHANGED <<fr2, rx_src, delivered, big, calls_open>>
    /\ UNCHANGED <<encVars, sessVars, muxVars, hVars, lVars>>

AlignNext ==
    \/ \E chan \in AlignChannels, ftype \in {Middle, First, Last, Single}, enc \in BOOLEAN :
            PeerSendMore(chan, ftype, enc)
    \/ ReadLoop
    \/ HandlerReturn

SpecAlign == AlignInit /\ [][AlignNext]_vars

---------------------------------------------------------------------------
(* Claims about reassembly (SpecRx) *)

SrcFrames(m) == [i \in DOMAIN m.srcs |-> sentlog[m.srcs[i]]]

SrcPayloads(m) == [i \in DOMAIN m.srcs |-> sentlog[m.srcs[i]].payload]

\* First, Middle*, Last on one channel
IsFirstMiddleLast(fs) ==
    /\ Len(fs) >= 2
    /\ fs[1].ftype = First
    /\ fs[Len(fs)].ftype = Last
    /\ \A i \in 2..(Len(fs) - 1) : fs[i].ftype = Middle
    /\ \A i \in DOMAIN fs : fs[i].channel_id = fs[1].channel_id

\* the frames read so far that complete a logical message
Completing == {i \in DOMAIN sentlog : sentlog[i].ftype \in {Last, Single}}

\* the fragments of channel X up to frame e that follow X's previous Last
FragmentsOf(X, e) ==
    LET prev == {j \in 1..(e - 1) : sentlog[j].channel_id = X /\ sentlog[j].ftype = Last}
        from == IF prev = {} THEN 1 ELSE 1 + CHOOSE j \in prev : \A k \in prev : k <= j
        idxs == [i \in 1..(e - from + 1) |-> from + i - 1]
    IN SelectSeq(idxs, LAMBDA j : sentlog[j].channel_id = X /\ sentlog[j].ftype # Single)

\* C5 (as stated): reassembly is per channel; the message delivered for X holds
\* the payloads of X's fragments only, whatever arrived on other channels between
\* X's First and X's Last.
C5_PerChannelReassembly ==
    \A k \in DOMAIN delivered :
        LET m == delivered[k]
            X == m.frame.header.channel_id
            e == m.srcs[Len(m.srcs)]
            own == FragmentsOf(X, e)
        IN sentlog[e].ftype = Last =>
            m.frame.data = Flatten([i \in DOMAIN own |-> sentlog[own[i]].payload])

\* the frame whose arrival completed the delivered message m
CompletedBy(m) == m.srcs[Len(m.srcs)]

\* the frames the read loop has consumed
Consumed == IF stream = << >> THEN Len(sentlog) ELSE Len(sentlog) - 1

\* C6: every run First, Middle*, Last of consecutive frames received on one
\* channel yields exactly one logical message, at the Last, on that channel,
\* whose data is the plaintext of the run's fragments in arrival order; the
\* First and the Middles of the run yield no message.
C6_Reassembly ==
    \A s \in 1..Consumed : \A e \in 1..Consumed :
        (s < e /\ IsFirstMiddleLast(SubSeq(sentlog, s, e))) =>
            /\ Cardinality({k \in DOMAIN delivered : CompletedBy(delivered[k]) = e}) = 1
            /\ \A k \in DOMAIN delivered :
                /\ CompletedBy(delivered[k]) \notin s..(e - 1)
                /\ CompletedBy(delivered[k]) = e =>
                    /\ delivered[k].frame.header.channel_id = sentlog[e].channel_id
                    /\ delivered[k].frame.data =
                            Flatten([i \in 1..(e - s + 1) |-> sentlog[s + i - 1].payload])

\* What holds of reassembly: a message is delivered only at a Last or a Single,
\* one per such frame and in their order, and a message put together from a
\* buffer that held exactly First, Middle*, Last of one channel carries the
\* fragments' plaintext in arrival order on that channel.
ReassemblyFromEmptyBuffer ==
    /\ \A k \in DOMAIN delivered :
        LET m == delivered[k]
        IN /\ sentlog[CompletedBy(m)].ftype \in {Last, Single}
           /\ IsFirstMiddleLast(SrcFrames(m)) =>
                /\ m.frame.data = Flatten(SrcPayloads(m))
                /\ m.frame.header.channel_id = sentlog[m.srcs[1]].channel_id
    /\ stream = << >> => Len(delivered) = Cardinality(Completing)
    /\ \A k \in DOMAIN delivered : \A j \in DOMAIN delivered :
            k < j => CompletedBy(delivered[k]) < CompletedBy(delivered[j])

\* the 40000-byte message of three encrypted fragments has been delivered whole
WholeMessageDelivered ==
    \E k \in DOMAIN delivered :
        /\ IsFirstMiddleLast(SrcFrames(delivered[k]))
        /\ Len(delivered[k].srcs) = 3
        /\ Len(delivered[k].frame.data) = 40000
        /\ get_encryption(delivered[k].frame.header.frame)

---------------------------------------------------------------------------
(* The TLS engine of the session: the rustls ClientConnection, as far as   *)
(* the session drives it                                                   *)

\* rustls::ClientConnection::new: handshaking, the ClientHello queued
ClientConnection_new == [handshaking |-> TRUE, sendable_tls |-> TRUE]

is_handshaking(ssl) == ssl.handshaking

wants_write(ssl) == ssl.sendable_tls

\* the engine reads unless handshake records still wait to be sent
wants_read(ssl) == ~ssl.handshaking \/ ~ssl.sendable_tls

\* write_tls hands out every queued record
write_tls(ssl) == [ssl EXCEPT !.sendable_tls = FALSE]

\* read_tls and process_new_packets of the bytes of an SSL_HANDSHAKE frame: the
\* engines that can result.  The peer's bytes decide whether the handshake
\* advances, completes or stays, and whether records are queued in reply.
process_new_packets(ssl) ==
    IF ssl.handshaking
    THEN [handshaking : BOOLEAN, sendable_tls : BOOLEAN]
    ELSE {ssl, [ssl EXCEPT !.sendable_tls = TRUE]}

---------------------------------------------------------------------------
(* The message encoders: impl From<...Message> for AndroidAutoFrame.  The   *)
(* payload of a frame is kept as the message's name and fields.            *)

Msg(t, v) == [t |-> t, v |-> v]

ShutdownResponse_into ==
    AndroidAutoFrame(FrameHeader(0, FrameHeaderContents_new(TRUE, Single, FALSE)),
                     Msg("SHUTDOWN_RESPONSE", << >>))

PingResponse_into(timestamp) ==
    AndroidAutoFrame(FrameHeader(0, FrameHeaderContents_new(FALSE, Single, FALSE)),
                     Msg("PING_RESPONSE", << timestamp >>))

PingRequest_into(timestamp) ==
    AndroidAutoFrame(FrameHeader(0, FrameHeaderContents_new(FALSE, Single, FALSE)),
                     Msg("PING_REQUEST", << timestamp >>))

\* an encoder that leaves the audio focus response in the clear
AudioFocusResponse_Plain(state) ==
    AndroidAutoFrame(FrameHeader(0, FrameHeaderContents_new(FALSE, Single, FALSE)),
                     Msg("AUDIO_FOCUS_RESPONSE", << state >>))

AudioFocusResponse_into(state) ==
    AndroidAutoFrame(FrameHeader(0, FrameHeaderContents_new(TRUE, Single, FALSE)),
                     Msg("AUDIO_FOCUS_RESPONSE", << state >>))

ServiceDiscoveryResponse_into(chans) ==
    AndroidAutoFrame(FrameHeader(0, FrameHeaderContents_new(TRUE, Single, FALSE)),
                     Msg("SERVICE_DISCOVERY_RESPONSE", chans))

\* a head unit that advertises version 1.0
VERSION_1_0 == << 1, 0 >>

\* the version the head unit advertises
VERSION == << 1, 1 >>

VersionRequest_into ==
    AndroidAutoFrame(FrameHeader(0, FrameHeaderContents_new(FALSE, Single, FALSE)),
                     Msg("VERSION_REQUEST", VERSION))

SslHandshake_into ==
    AndroidAutoFrame(FrameHeader(0, FrameHeaderContents_new(FALSE, Single, FALSE)),
                     Msg("SSL_HANDSHAKE", << >>))

SslAuthComplete_into ==
    AndroidAutoFrame(FrameHeader(0, FrameHeaderContents_new(FALSE, Single, FALSE)),
                     Msg("AUTH_COMPLETE", << 0 >>))

ChannelOpenResponse_into(chan) ==
    AndroidAutoFrame(FrameHeader(chan, FrameHeaderContents_new(TRUE, Single, TRUE)),
                     Msg("CHANNEL_OPEN_RESPONSE", << >>))

\* AndroidAutoCommonMessage::ChannelOpenResponse(channel, m2) into a frame,
\* m2 being a ChannelOpenResponse with the given status
ChannelOpenResponse(chan, status) ==
    AndroidAutoFrame(FrameHeader(chan, FrameHeaderContents_new(TRUE, Single, TRUE)),
                     Msg("CHANNEL_OPEN_RESPONSE", << status >>))

\* an encoder that marks the binding response as a control frame
BindingResponse_Control(chan, status) ==
    AndroidAutoFrame(FrameHeader(chan, FrameHeaderContents_new(TRUE, Single, TRUE)),
                     Msg("BINDING_RESPONSE", << status >>))

BindingResponse_into(chan, status) ==
    AndroidAutoFrame(FrameHeader(chan, FrameHeaderContents_new(TRUE, Single, FALSE)),
                     Msg("BINDING_RESPONSE", << status >>))

SensorStartResponse_into(chan, status) ==
    AndroidAutoFrame(FrameHeader(chan, FrameHeaderContents_new(TRUE, Single, FALSE)),
                     Msg("SENSOR_START_RESPONSE", << status >>))

SensorEvent_into(chan) ==
    AndroidAutoFrame(FrameHeader(chan, FrameHeaderContents_new(TRUE, Single, FALSE)),
                     Msg("SENSOR_EVENT", << >>))

PairingResponse_into(chan) ==
    AndroidAutoFrame(FrameHeader(chan, FrameHeaderContents_new(TRUE, Single, FALSE)),
                     Msg("BLUETOOTH_PAIRING_RESPONSE", << >>))

SetupResponse_into(chan, max_unacked) ==
    AndroidAutoFrame(FrameHeader(chan, FrameHeaderContents_new(TRUE, Single, FALSE)),
                     Msg("AV_SETUP_RESPONSE", << max_unacked, "OK", << 0 >> >>))

VideoIndicationResponse_into(chan, focus_mode) ==
    AndroidAutoFrame(FrameHeader(chan, FrameHeaderContents_new(TRUE, Single, FALSE)),
                     Msg("VIDEO_FOCUS_INDICATION", << focus_mode >>))

\* an encoder that leaves the session of the ack at its default
MediaIndicationAck_into_NoSession(chan, session, value) ==
    AndroidAutoFrame(FrameHeader(chan, FrameHeaderContents_new(TRUE, Single, FALSE)),
                     Msg("AV_MEDIA_ACK_INDICATION", << 0, value >>))

\* AvChannelMessage::MediaIndicationAck(chan, m) into a frame
MediaIndicationAck_into(chan, session, value) ==
    AndroidAutoFrame(FrameHeader(chan, FrameHeaderContents_new(TRUE, Single, FALSE)),
                     Msg("AV_MEDIA_ACK_INDICATION", << session, value >>))

\* inner.session.ok_or(VideoChannelNotOpen): Ok when a session is recorded
session_recorded(session) == session # << >>

---------------------------------------------------------------------------
(* Spec: one session of handle_client *)

\* the handlers pushed to channel_handlers, in push order
HandlerTable(video) ==
    << "Control", "Input", "Sensor" >>
        \o (IF video THEN << "Video" >> ELSE << >>)
        \o << "MediaAudio", "SpeechAudio", "SystemAudio", "AvInput", "Bluetooth",
              "Navigation", "MediaStatus" >>

\* the order in which build_channel is called on the handlers
chan_visit_Registration == << 1, 2, 3, 4, 5, 6, 7, 8, 9, 10 >>
chan_visit == << 7, 4, 5, 6, 2, 3, 8, 9, 10, 1 >>

\* handler.build_channel(&config, chan, main): the control handler describes
\* nothing, the input handler describes its channel when input is supported
build_channel(kind, chanid, input) ==
    IF kind = "Control" \/ (kind = "Input" /\ ~input) THEN << >>
    ELSE << [channel_id |-> chanid, kind |-> kind] >>

\* channel_handlers.get_mut(channel_id): "none" past the end of the table
handler_for(chan) ==
    IF chan + 1 <= Len(channel_handlers) THEN channel_handlers[chan + 1] ELSE "none"

\* a logical message the read loop hands to a handler
Inbound(chan, control, t, v) == [channel_id |-> chan, control |-> control, t |-> t, v |-> v]

SessInit ==
    /\ pc = "accept"
    /\ supports_video \in BOOLEAN
    /\ supports_input \in BOOLEAN
    /\ video_session = << >>
    /\ channel_handlers = << >>
    /\ channels = << >>
    /\ ssl_client = ClientConnection_new
    /\ wire = << >>
    /\ rxlog = << >>
    /\ result = "running"
    /\ handshake_starts = 0
    /\ EncOff
    /\ RxOff
    /\ MuxOff
    /\ HOff
    /\ LOff

\* handle_client builds the handler table and the descriptor list; indexing the
\* table past its end panics
BuildHandlers ==
    /\ pc = "accept"
    /\ LET hs == HandlerTable(supports_video)
       IN /\ channel_handlers' = hs
          /\ IF \E i \in DOMAIN chan_visit : chan_visit[i] + 1 > Len(hs)
             THEN /\ channels' = << >>
                  /\ pc' = "panic"
                  /\ result' = "panic"
             ELSE /\ channels' = Flatten([i \in DOMAIN chan_visit |->
                                    build_channel(hs[chan_visit[i] + 1], chan_visit[i],
                                                  supports_input)])
                  /\ pc' = "hello"
                  /\ result' = result
    /\ UNCHANGED <<supports_video, supports_input, video_session, ssl_client, wire, rxlog,
                   handshake_starts>>
    /\ UNCHANGED <<encVars, rxVars, muxVars, hVars, lVars>>

\* stream.write_frame(frame): build_vec with the TLS engine, then write_all.  An
\* encrypted frame goes through writer() and write_tls, which hands out whatever
\* the engine has queued.
write_frame(st, f) ==
    [st EXCEPT !.wire = Append(st.wire, f),
               !.ssl = IF get_encryption(f.header.frame) THEN write_tls(st.ssl) ELSE st.ssl]

\* the transport and the handler state as a handler finds them
Transport == [wire |-> wire, ssl |-> ssl_client, starts |-> handshake_starts,
              session |-> video_session]

\* the VERSION_REQUEST is written before the loop starts
SendVersionRequest ==
    /\ pc = "hello"
    /\ LET st == write_frame(Transport, VersionRequest_into)
       IN /\ wire' = st.wire
          /\ ssl_client' = st.ssl
    /\ pc' = "loop"
    /\ UNCHANGED <<supports_video, supports_input, video_session, channel_handlers, channels,
                   rxlog, result, handshake_starts>>
    /\ UNCHANGED <<encVars, rxVars, muxVars, hVars, lVars>>

\* the read loop has a message m for the handler of kind
Receiving(m, kind) ==
    /\ pc = "loop"
    /\ Len(rxlog) < MaxFrames
    /\ handler_for(m.channel_id) = kind

\* the handler returns res with the transport left as st: Ok continues the loop,
\* an error ends handle_client, a panic ends the task
Returned(m, st, res) ==
    /\ rxlog' = Append(rxlog, m)
    /\ wire' = st.wire
    /\ ssl_client' = st.ssl
    /\ handshake_starts' = st.starts
    /\ video_session' = st.session
    /\ pc' = IF res = "Ok" THEN "loop" ELSE IF res = "panic" THEN "panic" ELSE "ended"
    /\ result' = IF res = "Ok" THEN result ELSE res
    /\ UNCHANGED <<supports_video, supports_input, channel_handlers, channels>>
    /\ UNCHANGED <<encVars, rxVars, muxVars, hVars, lVars>>

\* a handler that reports no incompatible version
StatusIsMismatch_Never(status) == FALSE

\* status == 0xFFFF
StatusIsMismatch(status) == status = 65535

\* the records the engine has queued go out as one SSL_HANDSHAKE frame
send_handshake_records(st) ==
    IF wants_write(st.ssl)
    THEN write_frame([st EXCEPT !.ssl = write_tls(st.ssl)], SslHandshake_into)
    ELSE st

\* start_handshake: the queued handshake records go out as an SSL_HANDSHAKE frame
start_handshake(st) == send_handshake_records([st EXCEPT !.starts = @ + 1])

\* do_handshake(data): the peer's records are processed when the engine reads,
\* leaving the engine as ssl1; queued records go out as an SSL_HANDSHAKE frame
do_handshake(st, ssl1) == send_handshake_records([st EXCEPT !.ssl = ssl1])

\* the statuses a peer answers with: compatible, incompatible
PeerStatuses == {0, 65535}

RecvVersionResponse(status) ==
    LET m == Inbound(0, FALSE, "VERSION_RESPONSE", << 1, 0, status >>)
    IN /\ Receiving(m, "Control")
       /\ IF StatusIsMismatch(status)
          THEN Returned(m, Transport, "Version mismatch")
          ELSE Returned(m, start_handshake(Transport), "Ok")

RecvSslHandshake ==
    LET m == Inbound(0, FALSE, "SSL_HANDSHAKE", << >>)
    IN /\ Receiving(m, "Control")
       /\ \E ssl1 \in (IF wants_read(ssl_client) THEN process_new_packets(ssl_client)
                       ELSE {ssl_client}) :
            LET st1 == do_handshake(Transport, ssl1)
                st2 == IF ~is_handshaking(st1.ssl)
                       THEN write_frame(st1, SslAuthComplete_into)
                       ELSE st1
            IN Returned(m, st2, "Ok")

\* the timestamp of the peer's pings
PeerTimestamp == 7

RecvPingRequest ==
    LET m == Inbound(0, FALSE, "PING_REQUEST", << PeerTimestamp >>)
    IN /\ Receiving(m, "Control")
       /\ Returned(m, write_frame(Transport, PingResponse_into(PeerTimestamp + 1)), "Ok")

RecvPingResponse ==
    LET m == Inbound(0, FALSE, "PING_RESPONSE", << PeerTimestamp >>)
    IN /\ Receiving(m, "Control")
       /\ Returned(m, Transport, "Ok")

\* a handler that echoes the requested type
AudioFocusState_Echo(type) == type

\* the audio focus state answered to a requested focus type
AudioFocusState(type) ==
    CASE type = "NONE" -> "NONE"
      [] type = "GAIN" -> "GAIN"
      [] type = "GAIN_TRANSIENT" -> "GAIN_TRANSIENT"
      [] type = "GAIN_NAVI" -> "GAIN"
      [] type = "RELEASE" -> "LOSS"
      [] OTHER -> "NONE"

\* the focus types the peer asks for
PeerFocusTypes == {"GAIN_NAVI", "RELEASE"}

RecvAudioFocusRequest(type) ==
    LET m == Inbound(0, FALSE, "AUDIO_FOCUS_REQUEST", << type >>)
    IN /\ Receiving(m, "Control")
       /\ Returned(m, write_frame(Transport, AudioFocusResponse_into(AudioFocusState(type))),
                   "Ok")

\* a handler that moves the descriptors into the response
RecvServiceDiscoveryRequest_Drain ==
    LET m == Inbound(0, FALSE, "SERVICE_DISCOVERY_REQUEST", << >>)
        st == write_frame(Transport, ServiceDiscoveryResponse_into(channels))
    IN /\ Receiving(m, "Control")
       /\ rxlog' = Append(rxlog, m)
       /\ wire' = st.wire
       /\ ssl_client' = st.ssl
       /\ channels' = << >>
       /\ UNCHANGED <<pc, result, handshake_starts, video_session, supports_video,
                      supports_input, channel_handlers>>
       /\ UNCHANGED <<encVars, rxVars, muxVars, hVars, lVars>>

\* SERVICE_DISCOVERY_REQUEST: the response carries clones of inner.channels
RecvServiceDiscoveryRequest ==
    LET m == Inbound(0, FALSE, "SERVICE_DISCOVERY_REQUEST", << >>)
    IN /\ Receiving(m, "Control")
       /\ Returned(m, write_frame(Transport, ServiceDiscoveryResponse_into(channels)), "Ok")

\* a handler that takes every shutdown request for a QUIT
RecvShutdownRequest_AnyReason(reason) ==
    LET m == Inbound(0, FALSE, "SHUTDOWN_REQUEST", << reason >>)
    IN /\ Receiving(m, "Control")
       /\ Returned(m, write_frame(Transport, ShutdownResponse_into),
                   "Shutdown requested by peer")

\* a handler that answers the shutdown request and goes on
RecvShutdownRequest_Continue(reason) ==
    LET m == Inbound(0, FALSE, "SHUTDOWN_REQUEST", << reason >>)
    IN /\ Receiving(m, "Control")
       /\ Returned(m, write_frame(Transport, ShutdownResponse_into), "Ok")

\* SHUTDOWN_REQUEST: with reason QUIT the response is written and the handler
\* returns an error; any other reason is ignored
RecvShutdownRequest(reason) ==
    LET m == Inbound(0, FALSE, "SHUTDOWN_REQUEST", << reason >>)
    IN /\ Receiving(m, "Control")
       /\ IF reason = "QUIT"
          THEN Returned(m, write_frame(Transport, ShutdownResponse_into),
                        "Shutdown requested by peer")
          ELSE Returned(m, Transport, "Ok")

\* frames the control handler has no arm for: a message only the head unit
\* sends (unimplemented!), and a frame with the control flag, which the control
\* parser rejects (todo!)
RecvControlUnhandled(t) ==
    LET m == Inbound(0, t = "CHANNEL_OPEN_REQUEST", t, << >>)
    IN /\ Receiving(m, "Control")
       /\ Returned(m, Transport, "panic")

\* every handler of a channel other than control answers a CHANNEL_OPEN_REQUEST
\* on the channel the request came on
RecvChannelOpenRequest(chan) ==
    LET m == Inbound(chan, TRUE, "CHANNEL_OPEN_REQUEST", << >>)
    IN /\ chan # 0
       /\ Receiving(m, handler_for(chan))
       /\ handler_for(chan) # "none"
       /\ Returned(m, write_frame(Transport, ChannelOpenResponse_into(chan)), "Ok")

RecvBindingRequest(chan) ==
    LET m == Inbound(chan, FALSE, "BINDING_REQUEST", << >>)
    IN /\ Receiving(m, "Input")
       /\ Returned(m, write_frame(Transport,
                        BindingResponse_into(chan, IF supports_input THEN "OK" ELSE "FAIL")),
                   "Ok")

RecvSensorStartRequest(chan) ==
    LET m == Inbound(chan, FALSE, "SENSOR_START_REQUEST", << "DRIVING_STATUS" >>)
    IN /\ Receiving(m, "Sensor")
       /\ Returned(m, write_frame(write_frame(Transport, SensorStartResponse_into(chan, "OK")),
                                  SensorEvent_into(chan)), "Ok")

RecvPairingRequest(chan) ==
    LET m == Inbound(chan, FALSE, "BLUETOOTH_PAIRING_REQUEST", << >>)
    IN /\ Receiving(m, "Bluetooth")
       /\ Returned(m, write_frame(Transport, PairingResponse_into(chan)), "Ok")

\* the video handler answers a set-up request, waits for focus and reports it
RecvVideoSetupRequest(chan) ==
    LET m == Inbound(chan, FALSE, "AV_SETUP_REQUEST", << >>)
        st1 == write_frame(Transport, SetupResponse_into(chan, 1))
        st2 == IF supports_video
               THEN write_frame(st1, VideoIndicationResponse_into(chan, "FOCUSED"))
               ELSE st1
    IN /\ Receiving(m, "Video")
       /\ Returned(m, st2, "Ok")

\* the sessions the peer starts video with
PeerSessions == {7, 9}

\* AV_START_INDICATION: the video handler records the session
RecvVideoStartIndication(chan, session) ==
    LET m == Inbound(chan, FALSE, "AV_START_INDICATION", << session >>)
    IN /\ Receiving(m, "Video")
       /\ Returned(m, [Transport EXCEPT !.session = << session >>], "Ok")

\* a handler that acknowledges with the default session when none is recorded
RecvVideoMediaIndication_Unchecked(chan) ==
    LET m == Inbound(chan, FALSE, "AV_MEDIA_INDICATION", << >>)
        session == IF session_recorded(video_session) THEN video_session[1] ELSE 0
    IN /\ Receiving(m, "Video")
       /\ Returned(m, write_frame(Transport, MediaIndicationAck_into(chan, session, 1)), "Ok")

\* AV_MEDIA_INDICATION: the data goes to receive_video, then the ack carries
\* the recorded session; without one the handler fails
RecvVideoMediaIndication(chan) ==
    LET m == Inbound(chan, FALSE, "AV_MEDIA_INDICATION", << >>)
    IN /\ Receiving(m, "Video")
       /\ IF ~supports_video THEN Returned(m, Transport, "Ok")
          ELSE IF session_recorded(video_session)
          THEN Returned(m, write_frame(Transport,
                            MediaIndicationAck_into(chan, video_session[1], 1)), "Ok")
          ELSE Returned(m, Transport, "VideoChannelNotOpen")

\* a frame on a channel id the table has no handler for
RecvNoHandler(chan) ==
    LET m == Inbound(chan, FALSE, "UNKNOWN", << >>)
    IN /\ Receiving(m, "none")
       /\ Returned(m, Transport, "panic")

\* the channel ids a frame header can carry
WireChannels == KnownChannelIds

SessNext ==
    \/ BuildHandlers
    \/ SendVersionRequest
    \/ \E status \in PeerStatuses : RecvVersionResponse(status)
    \/ RecvSslHandshake
    \/ RecvPingRequest
    \/ RecvPingResponse
    \/ \E type \in PeerFocusTypes : RecvAudioFocusRequest(type)
    \/ RecvServiceDiscoveryRequest
    \/ \E reason \in {"QUIT", "USER_SELECTION"} : RecvShutdownRequest(reason)
    \/ \E t \in {"AUTH_COMPLETE", "CHANNEL_OPEN_REQUEST"} : RecvControlUnhandled(t)
    \/ \E chan \in WireChannels : RecvChannelOpenRequest(chan)
    \/ \E chan \in WireChannels : RecvBindingRequest(chan)
    \/ \E chan \in WireChannels : RecvSensorStartRequest(chan)
    \/ \E chan \in WireChannels : RecvPairingRequest(chan)
    \/ \E chan \in WireChannels : RecvVideoSetupRequest(chan)
    \/ \E chan \in WireChannels, session \in PeerSessions : RecvVideoStartIndication(chan, session)
    \/ \E chan \in WireChannels : RecvVideoMediaIndication(chan)
    \/ \E chan \in WireChannels : RecvNoHandler(chan)

Spec == SessInit /\ [][SessNext]_vars

---------------------------------------------------------------------------
(* Properties of the session *)

\* the positions of the wire that hold a message of name t
Written(t) == {i \in DOMAIN wire : wire[i].data.t = t}

Encrypted(f) == get_encryption(f.header.frame)

\* C1: in every session AUTH_COMPLETE is written exactly once: at most once
\* whatever control frames arrive, and once when the TLS engine reports the
\* handshake established.
C1_AuthCompleteExactlyOnce ==
    /\ Cardinality(Written("AUTH_COMPLETE")) <= 1
    /\ ~is_handshaking(ssl_client) => Cardinality(Written("AUTH_COMPLETE")) = 1

\* C2: while the TLS handshake has not completed, every frame written so far is
\* unencrypted, on channel 0, and is a VERSION_REQUEST, an SSL_HANDSHAKE or an
\* AUTH_COMPLETE.
C2_OnlyHandshakeFramesBeforeTls ==
    is_handshaking(ssl_client) =>
        \A i \in DOMAIN wire :
            /\ ~Encrypted(wire[i])
            /\ wire[i].header.channel_id = 0
            /\ wire[i].data.t \in {"VERSION_REQUEST", "SSL_HANDSHAKE", "AUTH_COMPLETE"}

\* C3 as stated: every frame written after an AUTH_COMPLETE carries the
\* encrypted flag.
C3_AllEncryptedAfterAuthComplete ==
    \A i \in Written("AUTH_COMPLETE") :
        \A j \in DOMAIN wire : j > i => Encrypted(wire[j])

\* C3 amended: a frame written after an AUTH_COMPLETE carries the encrypted flag
\* exactly when it is not a PING_RESPONSE, an SSL_HANDSHAKE or a further
\* AUTH_COMPLETE, which are always written in the clear.
C3_EncryptedAfterAuthCompleteExceptPlain ==
    \A i \in Written("AUTH_COMPLETE") :
        \A j \in DOMAIN wire :
            j > i => (Encrypted(wire[j]) <=>
                        wire[j].data.t \notin {"PING_RESPONSE", "SSL_HANDSHAKE", "AUTH_COMPLETE"})

\* an AUTH_COMPLETE was written and frames followed it, on the control channel
\* or on another channel, with the encrypted flag
C3_Witness ==
    \E i \in Written("AUTH_COMPLETE") :
        \E j \in DOMAIN wire :
            /\ j > i
            /\ Encrypted(wire[j])
            /\ wire[j].data.t \in {"AUDIO_FOCUS_RESPONSE", "SERVICE_DISCOVERY_RESPONSE",
                                   "CHANNEL_OPEN_RESPONSE", "SENSOR_EVENT"}

MismatchReceived ==
    \E i \in DOMAIN rxlog :
        rxlog[i].t = "VERSION_RESPONSE" /\ rxlog[i].v[3] = 65535

\* C10: the step that dispatches a VERSION_RESPONSE with status 0xFFFF ends the
\* session with the version error, leaves the TLS engine as it was and writes
\* nothing; nothing is written or read in the session afterwards.
C10_VersionMismatchEndsSession ==
    [][ /\ (~MismatchReceived /\ MismatchReceived') =>
              /\ pc' = "ended"
              /\ result' = "Version mismatch"
              /\ wire' = wire
              /\ ssl_client' = ssl_client
        /\ MismatchReceived => UNCHANGED <<pc, result, wire, ssl_client, rxlog>> ]_vars

\* the peer answered the VERSION_REQUEST with status 0xFFFF: the session has
\* ended, the wire holds the VERSION_REQUEST alone, the handshake never began
C10_Witness ==
    /\ Len(rxlog) = 1
    /\ MismatchReceived
    /\ pc = "ended"
    /\ result = "Version mismatch"
    /\ wire = << VersionRequest_into >>
    /\ ssl_client = ClientConnection_new

\* C11: the first frame written in a session is the VERSION_REQUEST: channel 0,
\* unencrypted, Single, not a control frame, major 1 and minor 1.  It is on the
\* wire before the read loop runs and before any message is dispatched.
C11_VersionRequestFirst ==
    /\ wire # << >> =>
        /\ wire[1].data = Msg("VERSION_REQUEST", << 1, 1 >>)
        /\ wire[1].header.channel_id = 0
        /\ ~get_encryption(wire[1].header.frame)
        /\ get_frame_type(wire[1].header.frame) = Single
        /\ Written("VERSION_REQUEST") = {1}
    /\ (pc = "loop" \/ rxlog # << >>) => wire # << >>

\* messages were dispatched and answered in a session that began with the
\* VERSION_REQUEST
C11_Witness ==
    /\ Len(rxlog) >= 2
    /\ Len(wire) >= 3
    /\ wire[1] = VersionRequest_into

\* a VERSION_RESPONSE with a status other than 0xFFFF is among the messages
\* dispatched: the session has left AwaitingVersionResponse
VersionAccepted ==
    \E i \in DOMAIN rxlog :
        rxlog[i].t = "VERSION_RESPONSE" /\ rxlog[i].v[3] # 65535

\* C12: start_handshake is invoked at most once in a session, and the step that
\* dispatches a VERSION_RESPONSE after one was accepted neither invokes it nor
\* writes an SSL_HANDSHAKE frame.
C12_HandshakeStartedOnce ==
    [][ /\ handshake_starts' <= 1
        /\ (VersionAccepted /\ rxlog' # rxlog
                /\ rxlog'[Len(rxlog')].t = "VERSION_RESPONSE") =>
              /\ handshake_starts' = handshake_starts
              /\ Written("SSL_HANDSHAKE")' = Written("SSL_HANDSHAKE") ]_vars

---------------------------------------------------------------------------
(* SpecMux: the transport mux.  The reader, the writer and the TLS engine  *)
(* each sit behind a mutual-exclusion guard; read_frame and write_frame    *)
(* take two guards each, and a frame's bytes go out one write at a time.   *)

\* the receive task (the frame loop, whose handlers and handshake driver
\* reply through write_frame), the outbound pump, work spawned by a callback
Tasks == {"receive", "pump", "callback"}
Guards == {"reader", "writer", "tls"}

\* a guard is granted only while no task holds it
CanAcquire_Always(owner) == TRUE
CanAcquire(owner) == owner = "free"

\* read_frame acquires the reader and the TLS engine, in this order
read_frame_guards == << "reader", "tls" >>
\* write_frame acquires the writer and the TLS engine, in this order
write_frame_guards_TlsFirst == << "tls", "writer" >>
write_frame_guards == << "writer", "tls" >>

Holds(t) == {g \in Guards : guard_owner[g] = t}
InWrite(t) == task_pc[t] \in {"w_first", "w_second", "w_write"}
InRead(t) == task_pc[t] \in {"r_first", "r_second", "r_read"}
\* the guard a task is blocked on, "none" when it is not blocked
WaitsFor(t) ==
    CASE task_pc[t] = "w_first" -> write_frame_guards[1]
      [] task_pc[t] = "w_second" -> write_frame_guards[2]
      [] task_pc[t] = "r_first" -> read_frame_guards[1]
      [] task_pc[t] = "r_second" -> read_frame_guards[2]
      [] OTHER -> "none"
\* write_frame calls made so far
WritesCalled == Len(granted) + Cardinality({t \in Tasks : InWrite(t) /\ guard_owner["writer"] # t})

MuxInit ==
    /\ task_pc = [t \in Tasks |-> "idle"]
    /\ guard_owner = [g \in Guards |-> "free"]
    /\ task_frame = [t \in Tasks |-> 0]
    /\ task_pos = [t \in Tasks |-> 0]
    /\ mux_wire = << >>
    /\ granted = << >>
    /\ frames_read = 0
    /\ EncOff
    /\ RxOff
    /\ SessOff
    /\ HOff
    /\ LOff

\* a task is granted the guard it is blocked on
Acquire(t) ==
    LET g == WaitsFor(t) IN
    /\ g # "none"
    /\ CanAcquire(guard_owner[g])
    /\ guard_owner' = [guard_owner EXCEPT ![g] = t]
    /\ task_pc' = [task_pc EXCEPT ![t] =
            CASE task_pc[t] = "w_first" -> "w_second"
              [] task_pc[t] = "w_second" -> "w_write"
              [] task_pc[t] = "r_first" -> "r_second"
              [] task_pc[t] = "r_second" -> "r_read"]
    /\ granted' = IF g = "writer" THEN Append(granted, t) ELSE granted
    /\ task_frame' = IF g = "writer" THEN [task_frame EXCEPT ![t] = Len(granted) + 1]
                     ELSE task_frame
    /\ task_pos' = IF g = "writer" THEN [task_pos EXCEPT ![t] = 0] ELSE task_pos
    /\ UNCHANGED <<mux_wire, frames_read>>
    /\ UNCHANGED <<encVars, rxVars, sessVars, hVars, lVars>>

\* the guards of an operation are released when it returns
Release(t, gs) ==
    guard_owner' = [g \in Guards |-> IF g \in gs /\ guard_owner[g] = t THEN "free"
                                     ELSE guard_owner[g]]

\* the frame loop calls read_frame
ReadFrameCall ==
    /\ task_pc["receive"] = "idle"
    /\ frames_read < MaxReads
    /\ task_pc' = [task_pc EXCEPT !["receive"] = "r_first"]
    /\ UNCHANGED <<guard_owner, task_frame, task_pos, mux_wire, granted, frames_read>>
    /\ UNCHANGED <<encVars, rxVars, sessVars, hVars, lVars>>

\* read_frame returns one reassembled message
ReadFrameReturn ==
    /\ task_pc["receive"] = "r_read"
    /\ Release("receive", {"reader", "tls"})
    /\ frames_read' = frames_read + 1
    /\ task_pc' = [task_pc EXCEPT !["receive"] = "dispatch"]
    /\ UNCHANGED <<task_frame, task_pos, mux_wire, granted>>
    /\ UNCHANGED <<encVars, rxVars, sessVars, hVars, lVars>>

\* the handler of the message returns without writing
DispatchQuiet ==
    /\ task_pc["receive"] = "dispatch"
    /\ task_pc' = [task_pc EXCEPT !["receive"] = "idle"]
    /\ UNCHANGED <<guard_owner, task_frame, task_pos, mux_wire, granted, frames_read>>
    /\ UNCHANGED <<encVars, rxVars, sessVars, hVars, lVars>>

\* a task calls write_frame: a handler or the handshake driver from the
\* frame loop, the outbound pump for a dequeued item, a callback's task
WriteFrameCall(t) ==
    /\ task_pc[t] = IF t = "receive" THEN "dispatch" ELSE "idle"
    /\ WritesCalled < MaxWrites
    /\ task_pc' = [task_pc EXCEPT ![t] = "w_first"]
    /\ UNCHANGED <<guard_owner, task_frame, task_pos, mux_wire, granted, frames_read>>
    /\ UNCHANGED <<encVars, rxVars, sessVars, hVars, lVars>>

\* one write of the encoded frame reaches the wire
WriteBytes(t) ==
    /\ task_pc[t] = "w_write"
    /\ task_pos[t] < FrameBytes
    /\ mux_wire' = Append(mux_wire, << task_frame[t], task_pos[t] + 1 >>)
    /\ task_pos' = [task_pos EXCEPT ![t] = @ + 1]
    /\ UNCHANGED <<task_pc, guard_owner, task_frame, granted, frames_read>>
    /\ UNCHANGED <<encVars, rxVars, sessVars, hVars, lVars>>

\* a write_frame that returns, and gives up its guards, before the last
\* byte of its frame is written
WriteFrameReturn_Early(t) ==
    /\ task_pc[t] = "w_write"
    /\ Release(t, {"writer", "tls"})
    /\ task_pc' = [task_pc EXCEPT ![t] = "idle"]
    /\ UNCHANGED <<task_frame, task_pos, mux_wire, granted, frames_read>>
    /\ UNCHANGED <<encVars, rxVars, sessVars, hVars, lVars>>

\* write_frame returns
WriteFrameReturn(t) ==
    /\ task_pc[t] = "w_write"
    /\ task_pos[t] = FrameBytes
    /\ Release(t, {"writer", "tls"})
    /\ task_pc' = [task_pc EXCEPT ![t] = "idle"]
    /\ UNCHANGED <<task_frame, task_pos, mux_wire, granted, frames_read>>
    /\ UNCHANGED <<encVars, rxVars, sessVars, hVars, lVars>>

MuxNext ==
    \/ ReadFrameCall
    \/ ReadFrameReturn
    \/ DispatchQuiet
    \/ \E t \in Tasks : Acquire(t)
    \/ \E t \in Tasks : WriteFrameCall(t)
    \/ \E t \in Tasks : WriteBytes(t)
    \/ \E t \in Tasks : WriteFrameReturn(t)

SpecMux == MuxInit /\ [][MuxNext]_vars

\* C13: the wire carries whole frames in the order the writer guard was
\* granted: byte i of the wire is the next byte of the frame granted
\* ((i-1) div FrameBytes)+1-th, so no two frames interleave.
C13_WholeFramesInGrantOrder ==
    \A i \in DOMAIN mux_wire :
        mux_wire[i] = << ((i - 1) \div FrameBytes) + 1, ((i - 1) % FrameBytes) + 1 >>

\* frames of two tasks are on the wire, and a task waits for the writer guard
\* while another has written part of its frame
C13_Witness ==
    /\ Len(mux_wire) > FrameBytes
    /\ Len(mux_wire) % FrameBytes # 0
    /\ granted[1] # granted[2]
    /\ \E t \in Tasks : WaitsFor(t) = "writer"

\* no set of blocked tasks waits only for guards held inside the set
NoDeadlock ==
    \A S \in SUBSET Tasks :
        S # {} => \E t \in S : WaitsFor(t) = "none" \/ guard_owner[WaitsFor(t)] \notin S

---------------------------------------------------------------------------
(* Claims about the dispatch of the read loop (SpecRx) *)

\* C15: logical messages are dispatched in the order they complete, on one
\* channel and across channels; at most one receive_data call of the session
\* is open, and while one is open no frame after the one that completed its
\* message has been read.
C15_DispatchInCompletionOrder ==
    /\ \A k \in DOMAIN delivered : \A j \in DOMAIN delivered :
            k < j => CompletedBy(delivered[k]) < CompletedBy(delivered[j])
    /\ \A k \in DOMAIN delivered :
            /\ sentlog[CompletedBy(delivered[k])].ftype \in {Last, Single}
            /\ delivered[k].frame.header.channel_id
                    = sentlog[CompletedBy(delivered[k])].channel_id
    /\ calls_open <= 1
    /\ calls_open > 0 =>
            /\ delivered # << >>
            /\ CompletedBy(delivered[Len(delivered)]) = Consumed

\* messages of both channels have been dispatched, the peer's next frame is
\* waiting in the stream while the handler of the second message runs
C15_Witness ==
    /\ Len(delivered) >= 2
    /\ delivered[1].frame.header.channel_id # delivered[2].frame.header.channel_id
    /\ calls_open = 1
    /\ stream # << >>

---------------------------------------------------------------------------
(* Claims about the channel descriptors (Spec) *)

\* the channel ids of a list of descriptors
ChannelIdsOf(chans) == [k \in DOMAIN chans |-> chans[k].channel_id]

\* the channels lists of the SERVICE_DISCOVERY_RESPONSE frames written
DiscoveryLists == {wire[i].data.v : i \in Written("SERVICE_DISCOVERY_RESPONSE")}

\* C16 (as stated): the channels list of every SERVICE_DISCOVERY_RESPONSE holds
\* the descriptors build_channel returned at set-up in handler-registration
\* order: one per handler that describes a channel, by ascending table index.
C16_ChannelsInRegistrationOrder ==
    \A chans \in DiscoveryLists :
        /\ chans = channels
        /\ \A k \in DOMAIN chans : \A j \in DOMAIN chans :
                k < j => chans[k].channel_id < chans[j].channel_id
        /\ {chans[k].channel_id : k \in DOMAIN chans}
                = {c \in 1..10 : c # 1 \/ supports_input}

\* C16 (amended): the list holds the descriptors build_channel returned at
\* set-up, one per describing handler, in the order 7, 4, 5, 6, 2, 3, 8, 9,
\* 10, 1 of the table indices, each made by the handler at its index.
C16_ChannelsInVisitOrder ==
    \A chans \in DiscoveryLists :
        /\ chans = channels
        /\ ChannelIdsOf(chans)
                = SelectSeq(<< 7, 4, 5, 6, 2, 3, 8, 9, 10, 1 >>,
                            LAMBDA c : c # 1 \/ supports_input)
        /\ \A k \in DOMAIN chans : chans[k].kind = handler_for(chans[k].channel_id)

\* a response has been written by a head unit with input, whose list ends
\* with the input channel's descriptor
C16_Witness ==
    /\ DiscoveryLists # {}
    /\ supports_input
    /\ Len(channels) = 10
    /\ channels[10].kind = "Input"

\* the set-up of handle_client ended in a fault: nothing was written
SetupFaulted == pc = "panic" /\ wire = << >>

\* C17: for every combination of capabilities set-up completes without a
\* fault, and the channel_id of each advertised descriptor is the index at
\* which the handler table holds the handler that made it.
C17_SetupCompletes ==
    /\ ~SetupFaulted
    /\ \A k \in DOMAIN channels : channels[k].kind = handler_for(channels[k].channel_id)

\* C18: the descriptor list is set at set-up and no step after it changes it;
\* all SERVICE_DISCOVERY_RESPONSE frames of a session carry the same list.
C18_ChannelsFrozen ==
    [][ /\ pc # "accept" => channels' = channels
        /\ (\A a \in DiscoveryLists : \A b \in DiscoveryLists : a = b)' ]_vars

\* two responses are on the wire, with frames of other handlers dispatched
\* between set-up and the second response
C18_Witness ==
    /\ Cardinality(Written("SERVICE_DISCOVERY_RESPONSE")) >= 2
    /\ \E i \in DOMAIN rxlog : rxlog[i].channel_id # 0
    /\ channels # << >>

---------------------------------------------------------------------------
(* Claims about the video handler (Spec) *)

RxIndices == [i \in 1..Len(rxlog) |-> i]

\* the media frames dispatched so far that an AV_START_INDICATION precedes
StartsBefore(i) == {j \in 1..(i - 1) : rxlog[j].t = "AV_START_INDICATION"}
StartedMedia ==
    SelectSeq(RxIndices, LAMBDA i : rxlog[i].t = "AV_MEDIA_INDICATION" /\ StartsBefore(i) # {})
\* the session of the most recent AV_START_INDICATION before frame i
SessionAt(i) == rxlog[CHOOSE j \in StartsBefore(i) : \A k \in StartsBefore(i) : k <= j].v[1]

\* the acks written, in wire order
Acks == SelectSeq(wire, LAMBDA f : f.data.t = "AV_MEDIA_ACK_INDICATION")

\* C19: the acks on the wire answer the media frames one for one in arrival
\* order; each is on the channel of its media frame, has value 1 and carries
\* the session of the most recent AV_START_INDICATION before that frame.
C19_AckCarriesLatestSession ==
    /\ Len(Acks) = Len(StartedMedia)
    /\ \A k \in DOMAIN Acks :
        /\ Acks[k].header.channel_id = rxlog[StartedMedia[k]].channel_id
        /\ Acks[k].data.v = << SessionAt(StartedMedia[k]), 1 >>

\* a second AV_START_INDICATION replaced the session before the media frame
C19_Witness ==
    /\ Len(Acks) >= 1
    /\ \E i \in DOMAIN rxlog : \E j \in DOMAIN rxlog :
        /\ i < j /\ j < StartedMedia[1]
        /\ rxlog[i].t = "AV_START_INDICATION" /\ rxlog[j].t = "AV_START_INDICATION"
        /\ rxlog[i].v # rxlog[j].v

\* the media frames dispatched with no AV_START_INDICATION before them
UnstartedMedia == {i \in DOMAIN rxlog : rxlog[i].t = "AV_MEDIA_INDICATION" /\ StartsBefore(i) = {}}

\* C20: a media frame that finds no session recorded makes receive fail with
\* VideoChannelNotOpen; the session ends with it and no ack is written.
C20_MediaWithoutSessionFails ==
    UnstartedMedia # {} =>
        /\ UnstartedMedia = {Len(rxlog)}
        /\ result = "VideoChannelNotOpen"
        /\ pc = "ended"
        /\ Len(Acks) = 0

\* the media frame came after other traffic of the session
C20_Witness ==
    /\ UnstartedMedia # {}
    /\ Len(rxlog) >= 2
    /\ Len(wire) >= 2

\* the frames of type t dispatched on channel chan before frame i
Earlier(t, chan, i) == {j \in 1..(i - 1) : rxlog[j].t = t /\ rxlog[j].channel_id = chan}

\* C21: a media frame is acknowledged only in Streaming: before every
\* acknowledged media frame its channel has seen CHANNEL_OPEN_REQUEST, then
\* AV_SETUP_REQUEST (with the focus it waits for), then AV_START_INDICATION,
\* in that order.
C21_AckOnlyInStreaming ==
    \A k \in DOMAIN StartedMedia :
        LET i == StartedMedia[k]
            chan == rxlog[i].channel_id
        IN Len(Acks) >= k =>
            \E c \in Earlier("AV_START_INDICATION", chan, i) :
                \E b \in Earlier("AV_SETUP_REQUEST", chan, c) :
                    Earlier("CHANNEL_OPEN_REQUEST", chan, b) # {}

---------------------------------------------------------------------------
(* SpecHandlers: the handlers of a session in its loop, one message at a   *)
(* time, with each awaited call of the integration as a step of its own.   *)

\* the channel ids of the handler table of a session with video
InputChannel == 1
SensorChannel == 2
VideoChannel == 3
MediaAudioChannel == 4
SpeechAudioChannel == 5
SystemAudioChannel == 6
AvInputChannel == 7
NavigationChannel == 9

HInit ==
    /\ hpc = "loop"
    /\ hcfg \in [video : {TRUE}, input : BOOLEAN, audio_output : BOOLEAN,
                  audio_input : BOOLEAN, overflow_checks : BOOLEAN]
    /\ hlog = << >>
    /\ hwire = << >>
    /\ hcalls = << >>
    /\ hresult = "running"
    /\ inbox = << >>
    /\ EncOff
    /\ RxOff
    /\ SessOff
    /\ MuxOff
    /\ LOff

\* the loop has read a logical message and dispatches it
HReceiving == hpc = "loop" /\ Len(hlog) < MaxHandled

\* the frames fs, written for request req
WrittenFor(fs, req) == [i \in DOMAIN fs |-> [frame |-> fs[i], req |-> req]]

\* a call of the integration made for the request being handled; the request
\* is the newest of the log once the handler is entered
Call(name, arg) == [call |-> name, arg |-> arg]
CallsOf(cs, req) == [i \in DOMAIN cs |-> [call |-> cs[i].call, req |-> req, arg |-> cs[i].arg]]

\* the handler is entered with message m, writes fs, has made the calls cs
\* and moves to position next
HStep(m, fs, cs, next, res) ==
    /\ hlog' = Append(hlog, m)
    /\ hwire' = hwire \o WrittenFor(fs, Len(hlog) + 1)
    /\ hcalls' = hcalls \o CallsOf(cs, Len(hlog) + 1)
    /\ hpc' = next
    /\ hresult' = res
    /\ UNCHANGED <<hcfg, inbox>>
    /\ UNCHANGED <<encVars, rxVars, sessVars, muxVars, lVars>>

\* the handler goes on after an awaited call returned, writes fs and moves on
HResume(fs, cs, next, res) ==
    /\ hwire' = hwire \o WrittenFor(fs, Len(hlog))
    /\ hcalls' = hcalls \o CallsOf(cs, Len(hlog))
    /\ hpc' = next
    /\ hresult' = res
    /\ UNCHANGED <<hcfg, hlog, inbox>>
    /\ UNCHANGED <<encVars, rxVars, sessVars, muxVars, lVars>>

\* a handler that writes the focus indication without waiting for focus
HVideoSetupRequest_NoWait ==
    LET m == Inbound(VideoChannel, FALSE, "AV_SETUP_REQUEST", << >>)
    IN /\ HReceiving
       /\ HStep(m, << SetupResponse_into(VideoChannel, 1),
                     VideoIndicationResponse_into(VideoChannel, "FOCUSED") >>,
                << >>, "loop", hresult)

\* AV_SETUP_REQUEST on the video channel: the response is written, then the
\* handler awaits wait_for_focus when video is supported
HVideoSetupRequest ==
    LET m == Inbound(VideoChannel, FALSE, "AV_SETUP_REQUEST", << >>)
    IN /\ HReceiving
       /\ HStep(m, << SetupResponse_into(VideoChannel, 1) >>, << >>,
                IF hcfg.video THEN "wait_for_focus" ELSE "loop", hresult)

\* wait_for_focus returns: the focus indication is written
HWaitForFocusReturns ==
    /\ hpc = "wait_for_focus"
    /\ HResume(<< VideoIndicationResponse_into(VideoChannel, "FOCUSED") >>,
               << Call("wait_for_focus", << >>) >>, "loop", hresult)

\* VIDEO_FOCUS_REQUEST: set_focus is called and the mode is echoed
HVideoFocusRequest(mode) ==
    LET m == Inbound(VideoChannel, FALSE, "VIDEO_FOCUS_REQUEST", << mode >>)
    IN /\ HReceiving
       /\ IF hcfg.video
          THEN HStep(m, << VideoIndicationResponse_into(VideoChannel, mode) >>,
                     << Call("set_focus", << mode = "FOCUSED" >>) >>, "loop", hresult)
          ELSE HStep(m, << >>, << >>, "loop", hresult)

\* an i64 as four 16-bit limbs of its two's complement, most significant first
Limb == 65536
I64(a, b, c, d) == << a, b, c, d >>
I64_MAX == I64(32767, 65535, 65535, 65535)
I64_MIN == I64(32768, 0, 0, 0)

\* x + 1 in 64 bits, wrapping
wrapping_add_one(x) ==
    LET c4 == x[4] + 1
        c3 == x[3] + (c4 \div Limb)
        c2 == x[2] + (c3 \div Limb)
        c1 == x[1] + (c2 \div Limb)
    IN << c1 % Limb, c2 % Limb, c3 % Limb, c4 % Limb >>

\* x + 1 overflows an i64
add_one_overflows(x) == x = I64_MAX

\* the timestamps the peer puts in a PING_REQUEST: 42, -1, 65535, the largest
PeerTimestamps ==
    {I64(0, 0, 0, 42), I64(65535, 65535, 65535, 65535), I64(0, 0, 0, 65535), I64_MAX}

\* PING_REQUEST: a.timestamp() + 1 is answered; when the sum overflows, a build
\* with overflow checks panics and a build without them wraps
HPingRequest(t) ==
    LET m == Inbound(0, FALSE, "PING_REQUEST", << t >>)
    IN /\ HReceiving
       /\ IF add_one_overflows(t) /\ hcfg.overflow_checks
          THEN HStep(m, << >>, << >>, "panic", "panic")
          ELSE HStep(m, << PingResponse_into(wrapping_add_one(t)) >>, << >>, "loop", hresult)

\* every audio_focus_type, and a request that carries none
AudioFocusTypes == {"NONE", "GAIN", "GAIN_TRANSIENT", "GAIN_NAVI", "RELEASE", "absent"}

\* AUDIO_FOCUS_REQUEST: the state for the requested type is answered
HAudioFocusRequest(type) ==
    LET m == Inbound(0, FALSE, "AUDIO_FOCUS_REQUEST", << type >>)
    IN /\ HReceiving
       /\ HStep(m, << AudioFocusResponse_into(AudioFocusState(type)) >>, << >>, "loop", hresult)

\* the keycodes the integration declares, the scan codes a peer asks for
Keycodes == {1, 2}
ScanCodes == {1, 2, 3}
\* the lists of scan codes of a BINDING_REQUEST
ScanCodeLists ==
    {<< >>} \cup {<< a >> : a \in ScanCodes} \cup {<< a, b >> : a \in ScanCodes, b \in ScanCodes}

\* a loop that goes on after a failed bind
RECURSIVE bind_scan_codes_KeepsLast(_, _)
bind_scan_codes_KeepsLast(codes, fails) ==
    IF codes = << >> THEN [status |-> TRUE, calls |-> << >>]
    ELSE LET c == Head(codes)
             r == bind_scan_codes_KeepsLast(Tail(codes), fails)
         IN IF c \notin Keycodes THEN [status |-> FALSE, calls |-> << >>]
            ELSE [status |-> r.status,
                  calls |-> << Call("binding_request",
                                    << c, IF c \in fails THEN "Err" ELSE "Ok" >>) >> \o r.calls]

\* the loop over m.scan_codes: a code outside the declared keycodes, or one whose
\* binding_request fails (the codes of fails), ends the loop with status false
RECURSIVE bind_scan_codes(_, _)
bind_scan_codes(codes, fails) ==
    IF codes = << >> THEN [status |-> TRUE, calls |-> << >>]
    ELSE LET c == Head(codes)
         IN IF c \notin Keycodes THEN [status |-> FALSE, calls |-> << >>]
            ELSE IF c \in fails
            THEN [status |-> FALSE, calls |-> << Call("binding_request", << c, "Err" >>) >>]
            ELSE LET r == bind_scan_codes(Tail(codes), fails)
                 IN [status |-> r.status,
                     calls |-> << Call("binding_request", << c, "Ok" >>) >> \o r.calls]

\* BINDING_REQUEST: the scan codes are bound when input is supported, and the
\* status is answered
HBindingRequest(codes, fails) ==
    LET m == Inbound(InputChannel, FALSE, "BINDING_REQUEST", << codes >>)
        r == IF hcfg.input THEN bind_scan_codes(codes, fails)
             ELSE [status |-> FALSE, calls |-> << >>]
    IN /\ HReceiving
       /\ HStep(m, << BindingResponse_into(InputChannel, IF r.status THEN "OK" ELSE "FAIL") >>,
                r.calls, "loop", hresult)

\* the sensor types a peer asks for
SensorTypes == {"DRIVING_STATUS", "NIGHT_DATA", "LOCATION"}

\* SENSOR_START_REQUEST: the response is written with status OK, then the
\* first event of the sensor; a type other than DRIVING_STATUS and NIGHT_DATA
\* meets todo!()
HSensorStartRequest(type) ==
    LET m == Inbound(SensorChannel, FALSE, "SENSOR_START_REQUEST", << type >>)
        response == SensorStartResponse_into(SensorChannel, "OK")
    IN /\ HReceiving
       /\ IF type \in {"DRIVING_STATUS", "NIGHT_DATA"}
          THEN HStep(m, << response, SensorEvent_into(SensorChannel) >>, << >>, "loop", hresult)
          ELSE HStep(m, << response >>, << >>, "panic", "panic")

\* the audio channels and the AudioChannelType of each
AudioChannels == {MediaAudioChannel, SpeechAudioChannel, SystemAudioChannel}
AudioChannelType(chan) ==
    CASE chan = MediaAudioChannel -> "Media"
      [] chan = SpeechAudioChannel -> "Speech"
      [] chan = SystemAudioChannel -> "System"

\* the payloads of the peer's audio frames
AudioPayloads == {<< 1 >>, << 2 >>}

\* AV_MEDIA_INDICATION on an audio channel: the speech handler hands the data
\* to receive_audio when audio output is supported; the media and the system
\* handler log the frame
HAudioMediaIndication(chan, data) ==
    LET m == Inbound(chan, FALSE, "AV_MEDIA_INDICATION", << data >>)
    IN /\ HReceiving
       /\ IF chan = SpeechAudioChannel /\ hcfg.audio_output
          THEN HStep(m, << >>, << Call("receive_audio", << AudioChannelType(chan), data >>) >>,
                     "loop", hresult)
          ELSE HStep(m, << >>, << >>, "loop", hresult)

\* the status of a response: OK when the call of the integration succeeded
StatusOf(ok) == IF ok THEN "OK" ELSE "FAIL"

\* the status a handler gives its CHANNEL_OPEN_RESPONSE, ok being the result
\* of the integration's call where the handler makes one: the video handler
\* and the speech handler answer by that result, the speech handler FAIL
\* without audio output; the media and the system handler answer OK
open_status(chan, ok) ==
    CASE chan = VideoChannel -> IF hcfg.video THEN StatusOf(ok) ELSE "FAIL"
      [] chan = SpeechAudioChannel -> IF hcfg.audio_output THEN StatusOf(ok) ELSE "FAIL"
      [] OTHER -> "OK"

\* the calls of the integration a handler makes for a CHANNEL_OPEN_REQUEST
open_calls(chan, ok) ==
    CASE chan = VideoChannel /\ hcfg.video -> << Call("setup_video", << ok >>) >>
      [] chan = SpeechAudioChannel /\ hcfg.audio_output
            -> << Call("open_channel", << "Speech", ok >>) >>
      [] OTHER -> << >>

\* CHANNEL_OPEN_REQUEST on the video channel or an audio channel
HChannelOpenRequest(chan, ok) ==
    LET m == Inbound(chan, TRUE, "CHANNEL_OPEN_REQUEST", << >>)
    IN /\ HReceiving
       /\ HStep(m, << ChannelOpenResponse(chan, open_status(chan, ok)) >>,
                open_calls(chan, ok), "loop", hresult)

\* a handler that reports a failed open as a failed close and the reverse
HAvInputOpenRequest_Swapped(open, ok) ==
    LET m == Inbound(AvInputChannel, FALSE, "AV_INPUT_OPEN_REQUEST", << open >>)
        call == Call(IF open THEN "audio_input.open_channel" ELSE "audio_input.close_channel",
                     << ok >>)
        err == IF open THEN "AudioInputCloseError" ELSE "AudioInputOpenError"
    IN /\ HReceiving
       /\ IF ~hcfg.audio_input
          THEN HStep(m, << >>, << >>, "loop", hresult)
          ELSE IF ok
               THEN HStep(m, << >>, << call >>, "loop", hresult)
               ELSE HStep(m, << >>, << call >>, "ended", err)

\* AV_INPUT_OPEN_REQUEST{open}: with audio input the handler awaits
\* open_channel() or close_channel(); an error of the call is returned as
\* AudioInputOpenError or AudioInputCloseError and ends the session
HAvInputOpenRequest(open, ok) ==
    LET m == Inbound(AvInputChannel, FALSE, "AV_INPUT_OPEN_REQUEST", << open >>)
        call == Call(IF open THEN "audio_input.open_channel" ELSE "audio_input.close_channel",
                     << ok >>)
        err == IF open THEN "AudioInputOpenError" ELSE "AudioInputCloseError"
    IN /\ HReceiving
       /\ IF ~hcfg.audio_input
          THEN HStep(m, << >>, << >>, "loop", hresult)
          ELSE IF ok
               THEN HStep(m, << >>, << call >>, "loop", hresult)
               ELSE HStep(m, << >>, << call >>, "ended", err)

HNext ==
    \/ \E open \in BOOLEAN, ok \in BOOLEAN : HAvInputOpenRequest(open, ok)
    \/ \E chan \in {VideoChannel} \cup AudioChannels, ok \in BOOLEAN :
            HChannelOpenRequest(chan, ok)
    \/ \E chan \in AudioChannels, data \in AudioPayloads : HAudioMediaIndication(chan, data)
    \/ \E t \in PeerTimestamps : HPingRequest(t)
    \/ \E codes \in ScanCodeLists, fails \in SUBSET Keycodes : HBindingRequest(codes, fails)
    \/ \E type \in SensorTypes : HSensorStartRequest(type)
    \/ \E type \in AudioFocusTypes : HAudioFocusRequest(type)
    \/ HVideoSetupRequest
    \/ HWaitForFocusReturns
    \/ \E mode \in {"FOCUSED", "UNFOCUSED"} : HVideoFocusRequest(mode)

SpecHandlers == HInit /\ [][HNext]_vars

---------------------------------------------------------------------------
(* SpecNav: a session whose peer sends navigation and control messages *)

NavInit ==
    /\ hpc = "loop"
    /\ hcfg \in [video : {TRUE}, input : {FALSE}, audio_output : {FALSE},
                  audio_input : {FALSE}, overflow_checks : BOOLEAN, navigation : BOOLEAN]
    /\ hlog = << >>
    /\ hwire = << >>
    /\ hcalls = << >>
    /\ hresult = "running"
    /\ inbox = << >>
    /\ EncOff
    /\ RxOff
    /\ SessOff
    /\ MuxOff
    /\ LOff

\* the messages of the navigation channel and the callback each is routed to
NavigationTags == {"STATUS", "TURN_EVENT", "DISTANCE_EVENT"}
NavigationCallback(t) ==
    CASE t = "STATUS" -> "nagivation_status"
      [] t = "TURN_EVENT" -> "turn_indication"
      [] t = "DISTANCE_EVENT" -> "distance_indication"

\* the contents of the peer's navigation messages
NavigationPayloads == {<< 1 >>, << 2 >>}

\* TryFrom<&AndroidAutoFrame> for AndroidAutoCommonMessage: Ok for a
\* CHANNEL_OPEN_REQUEST that carries the control flag, Err for every other tag
CommonMessage_try_from(m) == m.control /\ m.t = "CHANNEL_OPEN_REQUEST"

\* A STATUS, TURN_EVENT or DISTANCE_EVENT on the navigation channel: the
\* callback is awaited when navigation is supported; the handler does not
\* return there: it goes on to parse the frame as a common message, and a
\* frame that is neither meets todo!()
HNavigationMessage(t, control, v) ==
    LET m == Inbound(NavigationChannel, control, t, v)
        cs == IF hcfg.navigation THEN << Call(NavigationCallback(t), v) >> ELSE << >>
    IN /\ HReceiving
       /\ IF CommonMessage_try_from(m)
          THEN HStep(m, << ChannelOpenResponse(NavigationChannel, "OK") >>, cs, "loop", hresult)
          ELSE HStep(m, << >>, cs, "panic", "panic")

\* CHANNEL_OPEN_REQUEST on the navigation channel: not a navigation message,
\* answered OK
HNavigationChannelOpenRequest ==
    LET m == Inbound(NavigationChannel, TRUE, "CHANNEL_OPEN_REQUEST", << >>)
    IN /\ HReceiving
       /\ HStep(m, << ChannelOpenResponse(NavigationChannel, "OK") >>, << >>, "loop", hresult)

NavNext ==
    \/ \E t \in NavigationTags, control \in BOOLEAN, v \in NavigationPayloads :
            HNavigationMessage(t, control, v)
    \/ HNavigationChannelOpenRequest
    \/ \E t \in PeerTimestamps : HPingRequest(t)
    \/ \E type \in AudioFocusTypes : HAudioFocusRequest(type)

SpecNav == NavInit /\ [][NavNext]_vars

---------------------------------------------------------------------------
(* SpecLive: the peer writes messages to the transport, the loop reads one *)
(* when it is not inside a handler, and awaits the handler before it reads *)
(* the next.                                                               *)

LiveInit ==
    /\ hpc = "loop"
    /\ hcfg = [video |-> TRUE, input |-> FALSE, audio_output |-> FALSE,
               audio_input |-> FALSE, overflow_checks |-> FALSE]
    /\ hlog = << >>
    /\ hwire = << >>
    /\ hcalls = << >>
    /\ hresult = "running"
    /\ inbox = << >>
    /\ EncOff
    /\ RxOff
    /\ SessOff
    /\ MuxOff
    /\ LOff

\* the messages the peer has written so far
Sent == Len(hlog) + Len(inbox)

\* what the peer writes as its k-th message: a PING_REQUEST with timestamp k,
\* an AV_SETUP_REQUEST on the video channel, or an AUDIO_FOCUS_REQUEST
PeerMessages(k) ==
    {Inbound(0, FALSE, "PING_REQUEST", << I64(0, 0, 0, k) >>),
     Inbound(VideoChannel, FALSE, "AV_SETUP_REQUEST", << >>),
     Inbound(0, FALSE, "AUDIO_FOCUS_REQUEST", << "GAIN" >>)}

\* the peer writes a message; the transport is up and holds it until read
PeerWrites(m) ==
    /\ Sent < MaxSent
    /\ hresult = "running"
    /\ inbox' = Append(inbox, m)
    /\ UNCHANGED <<hpc, hcfg, hlog, hwire, hcalls, hresult>>
    /\ UNCHANGED <<encVars, rxVars, sessVars, muxVars, lVars>>

\* the frames a handler writes before its first await of the integration,
\* and the position the loop is in afterwards
LiveHandler(m) ==
    CASE m.t = "PING_REQUEST"
            -> [frames |-> << PingResponse_into(wrapping_add_one(m.v[1])) >>, next |-> "loop"]
      [] m.t = "AV_SETUP_REQUEST"
            -> [frames |-> << SetupResponse_into(VideoChannel, 1) >>,
                next |-> IF hcfg.video THEN "wait_for_focus" ELSE "loop"]
      [] m.t = "AUDIO_FOCUS_REQUEST"
            -> [frames |-> << AudioFocusResponse_into(AudioFocusState(m.v[1])) >>,
                next |-> "loop"]

\* One iteration of the loop: it reads the next message and awaits
\* receive_data of the message's handler; it is not reading while a handler
\* it awaits has not returned.
LoopReads ==
    /\ hpc = "loop"
    /\ inbox # << >>
    /\ LET m == Head(inbox)
           h == LiveHandler(m)
       IN /\ hlog' = Append(hlog, m)
          /\ hwire' = hwire \o WrittenFor(h.frames, Len(hlog) + 1)
          /\ hpc' = h.next
    /\ inbox' = Tail(inbox)
    /\ UNCHANGED <<hcfg, hcalls, hresult>>
    /\ UNCHANGED <<encVars, rxVars, sessVars, muxVars, lVars>>

\* the integration returns from wait_for_focus: the video handler writes the
\* focus indication and returns to the loop
FocusReturns ==
    /\ hpc = "wait_for_focus"
    /\ hwire' = hwire \o WrittenFor(<< VideoIndicationResponse_into(VideoChannel, "FOCUSED") >>,
                                     Len(hlog))
    /\ hcalls' = hcalls \o CallsOf(<< Call("wait_for_focus", << >>) >>, Len(hlog))
    /\ hpc' = "loop"
    /\ UNCHANGED <<hcfg, hlog, hresult, inbox>>
    /\ UNCHANGED <<encVars, rxVars, sessVars, muxVars, lVars>>

LiveNext ==
    \/ \E m \in PeerMessages(Sent + 1) : PeerWrites(m)
    \/ LoopReads
    \/ FocusReturns

\* The loop is a task of the runtime: it takes its step when it can.  When
\* the integration returns from wait_for_focus is up to the integration.
SpecLive == LiveInit /\ [][LiveNext]_vars /\ WF_vars(LoopReads)

\* the same session with an integration that returns from wait_for_focus:
\* here every PING_REQUEST is answered
SpecLiveFocus == SpecLive /\ WF_vars(FocusReturns)

\* the frames written for request i, in the order written
FramesFor(i) ==
    LET fs == SelectSeq(hwire, LAMBDA w : w.req = i)
    IN [k \in DOMAIN fs |-> fs[k].frame]

\* the calls of name made for request i
CallsFor(name, i) == SelectSeq(hcalls, LAMBDA c : c.call = name /\ c.req = i)

\* C22: for an AV_SETUP_REQUEST on the video channel the handler writes
\* AV_SETUP_RESPONSE{max_unacked 1, OK, configs [0]} first and
\* VIDEO_FOCUS_INDICATION{FOCUSED} second, the second only after
\* wait_for_focus has returned for that request, and nothing else.
C22_SetupResponseThenFocus ==
    \A i \in DOMAIN hlog :
        hlog[i].t = "AV_SETUP_REQUEST" /\ hlog[i].channel_id = VideoChannel =>
            LET fs == FramesFor(i)
                granted_focus == Len(CallsFor("wait_for_focus", i)) = 1
            IN /\ Len(fs) >= 1
               /\ fs[1].data = Msg("AV_SETUP_RESPONSE", << 1, "OK", << 0 >> >>)
               /\ fs[1].header.channel_id = VideoChannel
               /\ Len(fs) = (IF granted_focus THEN 2 ELSE 1)
               /\ Len(fs) = 2 =>
                    /\ fs[2].data = Msg("VIDEO_FOCUS_INDICATION", << "FOCUSED" >>)
                    /\ fs[2].header.channel_id = VideoChannel

\* the response of a second set-up request is on the wire while the handler
\* waits for focus, after the first request went through
C22_Witness ==
    /\ hpc = "wait_for_focus"
    /\ Len(hlog) >= 2
    /\ \E i \in DOMAIN hlog : hlog[i].t = "AV_SETUP_REQUEST" /\ Len(FramesFor(i)) = 2
    /\ Len(FramesFor(Len(hlog))) = 1

---------------------------------------------------------------------------
(* Claims about the control handler (Spec) *)

\* the SHUTDOWN_REQUEST{QUIT} messages dispatched
QuitRequests ==
    {i \in DOMAIN rxlog : rxlog[i].t = "SHUTDOWN_REQUEST" /\ rxlog[i].v = << "QUIT" >>}

\* C23: a SHUTDOWN_REQUEST{QUIT} is the last message dispatched; its
\* SHUTDOWN_RESPONSE is the last frame written, the only one of the session,
\* and the session has ended with the error of a peer's shutdown, which no
\* other ending reports.
C23_ShutdownEndsSession ==
    /\ QuitRequests # {} =>
        /\ QuitRequests = {Len(rxlog)}
        /\ wire[Len(wire)] = ShutdownResponse_into
        /\ Written("SHUTDOWN_RESPONSE") = {Len(wire)}
        /\ pc = "ended"
        /\ result = "Shutdown requested by peer"
    /\ result = "Shutdown requested by peer" => QuitRequests # {}

\* the shutdown came after other traffic, a non-QUIT shutdown request included
C23_Witness ==
    /\ QuitRequests # {}
    /\ \E i \in DOMAIN rxlog : rxlog[i].t = "SHUTDOWN_REQUEST" /\ rxlog[i].v # << "QUIT" >>
    /\ Len(wire) >= 3

---------------------------------------------------------------------------
(* Claims about the handlers (SpecHandlers) *)

\* a < b as signed 64-bit integers
IsNegative(x) == x[1] >= 32768
LimbsLess(a, b) ==
    \E k \in 1..4 : a[k] < b[k] /\ \A j \in 1..(k - 1) : a[j] = b[j]
SignedLess(a, b) ==
    IF IsNegative(a) # IsNegative(b) THEN IsNegative(a) ELSE LimbsLess(a, b)

\* r is t + 1: the next bit pattern, and greater than t
IsSuccessor(t, r) == r = wrapping_add_one(t) /\ SignedLess(t, r)

\* C24: every PING_REQUEST{t} is answered by exactly one PING_RESPONSE{t + 1}
\* on channel 0, for every t of the timestamp's range, and the responses are
\* written in the order of the requests.
C24_PingAnswered ==
    /\ \A i \in DOMAIN hlog :
        hlog[i].t = "PING_REQUEST" =>
            LET fs == FramesFor(i)
            IN /\ Len(fs) = 1
               /\ fs[1].header.channel_id = 0
               /\ fs[1].data.t = "PING_RESPONSE"
               /\ IsSuccessor(hlog[i].v[1], fs[1].data.v[1])
    /\ \A k \in DOMAIN hwire : \A j \in DOMAIN hwire : k < j => hwire[k].req <= hwire[j].req

\* What holds of every timestamp but the largest.
PingAnsweredBelowMax ==
    \A i \in DOMAIN hlog :
        hlog[i].t = "PING_REQUEST" /\ hlog[i].v[1] # I64_MAX =>
            /\ Len(FramesFor(i)) = 1
            /\ IsSuccessor(hlog[i].v[1], FramesFor(i)[1].data.v[1])

\* the state the protocol answers to a focus type
FocusAnswer(type) ==
    CASE type = "GAIN_NAVI" -> "GAIN"
      [] type = "RELEASE" -> "LOSS"
      [] type = "NONE" -> "NONE"
      [] type = "GAIN" -> "GAIN"
      [] type = "GAIN_TRANSIENT" -> "GAIN_TRANSIENT"

\* C25: every AUDIO_FOCUS_REQUEST is answered by exactly one
\* AUDIO_FOCUS_RESPONSE on channel 0 whose state depends on the requested
\* type alone: GAIN_NAVI gives GAIN, RELEASE gives LOSS, NONE gives NONE,
\* GAIN gives GAIN, GAIN_TRANSIENT gives GAIN_TRANSIENT.
C25_FocusStateFromTypeAlone ==
    \A i \in DOMAIN hlog :
        hlog[i].t = "AUDIO_FOCUS_REQUEST" =>
            LET fs == FramesFor(i)
            IN /\ Len(fs) = 1
               /\ fs[1].header.channel_id = 0
               /\ fs[1].data.t = "AUDIO_FOCUS_RESPONSE"
               /\ hlog[i].v[1] # "absent" =>
                    fs[1].data.v = << FocusAnswer(hlog[i].v[1]) >>

\* GAIN_NAVI was answered GAIN after a RELEASE was answered LOSS
C25_Witness ==
    /\ Len(hlog) = 2
    /\ hlog[1].t = "AUDIO_FOCUS_REQUEST" /\ hlog[1].v = << "RELEASE" >>
    /\ hlog[2].t = "AUDIO_FOCUS_REQUEST" /\ hlog[2].v = << "GAIN_NAVI" >>
    /\ Len(hwire) = 2
    /\ hwire[2].frame.data.v = << "GAIN" >>

---------------------------------------------------------------------------
(* Claims about messages no handler case takes (Spec) *)

\* the dispatched control messages that the control handler has no case for:
\* a tag only the head unit sends, and a frame its parser does not recognise
Unhandled ==
    {i \in DOMAIN rxlog :
        rxlog[i].channel_id = 0 /\ rxlog[i].t \in {"AUTH_COMPLETE", "CHANNEL_OPEN_REQUEST"}}

\* C26: a message whose tag the handler of its channel does not recognise or
\* has no case for makes receive return an error that ends the session: the
\* message is the last one dispatched, the session has ended with an error,
\* and the task has not aborted.
C26_UnknownTagIsError ==
    Unhandled # {} =>
        /\ Unhandled = {Len(rxlog)}
        /\ pc = "ended"
        /\ result \notin {"running", "panic"}

---------------------------------------------------------------------------
(* SpecListen: wifi_listen accepts a connection, awaits handle_client on   *)
(* it, logs the error it returned and accepts the next one.                *)

\* the error kinds a read of the stream ends with: the peer closed the
\* connection or sent a truncated frame (UnexpectedEof), a read timed out, the
\* connection was reset, and a kind the match of handle_client does not list
ReadErrorKinds == {"UnexpectedEof", "TimedOut", "ConnectionReset", "Uncategorized"}

\* the errors a handler returns and the error of a failed write
HandlerErrors == {"Version mismatch", "Shutdown requested by peer", "VideoChannelNotOpen"}
WriteErrors == {"BrokenPipe"}

\* the terminal events of a session
SessionEvents ==
    {[at |-> "read", e |-> k] : k \in ReadErrorKinds}
        \cup {[at |-> "handler", e |-> h] : h \in HandlerErrors}
        \cup {[at |-> "write", e |-> w] : w \in WriteErrors}

\* what handle_client does with a terminal event: the match on the kind of a
\* read error has todo!() for the kinds it lists and returns an error for the
\* rest; the error of a write or of a handler is returned as its text
handle_client(ev) ==
    IF ev.at = "read"
    THEN IF ev.e \in {"UnexpectedEof", "TimedOut", "ConnectionReset"}
         THEN [ok |-> FALSE, err |-> "panic"]
         ELSE [ok |-> FALSE, err |-> "Unknown error reading frame header"]
    ELSE [ok |-> FALSE, err |-> ev.e]

ListenInit ==
    /\ lpc = "accept"
    /\ ended = << >>
    /\ llog = << >>
    /\ EncOff
    /\ RxOff
    /\ SessOff
    /\ MuxOff
    /\ HOff

\* a.accept().await returns a connection
Accept ==
    /\ lpc = "accept"
    /\ Len(ended) < MaxSessions
    /\ lpc' = "session"
    /\ UNCHANGED <<ended, llog>>
    /\ UNCHANGED <<encVars, rxVars, sessVars, muxVars, hVars>>

\* the session meets its terminal event: an error handle_client returns is
\* logged and the loop goes on; a panic unwinds through wifi_listen
SessionEnds(ev) ==
    /\ lpc = "session"
    /\ ended' = Append(ended, ev)
    /\ LET r == handle_client(ev)
       IN IF r.err = "panic"
          THEN lpc' = "stopped" /\ llog' = llog
          ELSE lpc' = "accept" /\ llog' = Append(llog, r.err)
    /\ UNCHANGED <<encVars, rxVars, sessVars, muxVars, hVars>>

ListenNext ==
    \/ Accept
    \/ \E ev \in SessionEvents : SessionEnds(ev)

SpecListen == ListenInit /\ [][ListenNext]_vars

\* C27: whatever terminal error ends a session (the peer's disconnect, a
\* timeout or a truncated frame while reading, a failed write, a handler's
\* error), wifi_listen logs it and goes on accepting: the accept loop never
\* stops, and every ended session has its entry in the log.
C27_AcceptLoopContinues ==
    /\ lpc # "stopped"
    /\ Len(llog) = Len(ended)
    /\ \A i \in DOMAIN ended : ended[i].at # "read" => llog[i] = ended[i].e

\* What holds: the errors of handlers and of writes, and read errors of a kind
\* the match does not list, are logged and the loop goes on.
ReturnedErrorsAreLogged ==
    /\ (\A i \in DOMAIN ended :
            ended[i].at # "read" \/ ended[i].e = "Uncategorized") =>
                lpc # "stopped" /\ Len(llog) = Len(ended)
    /\ \A i \in DOMAIN llog : ended[i].at # "read" => llog[i] = ended[i].e

\* the binding_request calls made for request i that returned Ok
BoundFor(i) ==
    {c.arg[1] : c \in {hcalls[k] : k \in {j \in DOMAIN hcalls :
        hcalls[j].call = "binding_request" /\ hcalls[j].req = i /\ hcalls[j].arg[2] = "Ok"}}}

\* C28: a BINDING_REQUEST is answered by exactly one BINDING_RESPONSE, whose
\* status is OK if and only if input is supported, every requested scan code
\* is a declared keycode, and binding_request succeeded for every requested
\* scan code; otherwise it is FAIL.
C28_BindingStatus ==
    \A i \in DOMAIN hlog :
        hlog[i].t = "BINDING_REQUEST" =>
            LET fs == FramesFor(i)
                codes == hlog[i].v[1]
                all_bound == /\ hcfg.input
                             /\ \A k \in DOMAIN codes :
                                    codes[k] \in {1, 2} /\ codes[k] \in BoundFor(i)
            IN /\ Len(fs) = 1
               /\ fs[1].data.t = "BINDING_RESPONSE"
               /\ fs[1].header.channel_id = hlog[i].channel_id
               /\ fs[1].data.v = << IF all_bound THEN "OK" ELSE "FAIL" >>

\* two declared codes were asked for and the bind of the first one failed
C28_Witness ==
    \E i \in DOMAIN hlog :
        /\ hlog[i].t = "BINDING_REQUEST"
        /\ hlog[i].v = << << 1, 2 >> >>
        /\ hcfg.input
        /\ \E k \in DOMAIN hcalls : hcalls[k].req = i /\ hcalls[k].arg = << 1, "Err" >>
        /\ FramesFor(i)[1].data.v = << "FAIL" >>

\* C29: for a SENSOR_START_REQUEST of any sensor type the handler calls
\* start_sensor(type) once and writes one SENSOR_START_RESPONSE, OK when the
\* call succeeded and FAIL when it failed; a type the head unit does not
\* provide is answered FAIL and the session continues.
C29_SensorStartStatus ==
    \A i \in DOMAIN hlog :
        hlog[i].t = "SENSOR_START_REQUEST" =>
            LET calls == CallsFor("start_sensor", i)
                responses == SelectSeq(FramesFor(i),
                                LAMBDA f : f.data.t = "SENSOR_START_RESPONSE")
            IN /\ Len(calls) = 1
               /\ calls[1].arg[1] = hlog[i].v[1]
               /\ Len(responses) = 1
               /\ responses[1].data.v = << IF calls[1].arg[2] = "Ok" THEN "OK" ELSE "FAIL" >>
               /\ hpc # "panic"

\* What the sensor handler does: it answers OK without a call of the
\* integration, and goes on only for DRIVING_STATUS and NIGHT_DATA.
SensorStartAnsweredOk ==
    \A i \in DOMAIN hlog :
        hlog[i].t = "SENSOR_START_REQUEST" =>
            /\ CallsFor("start_sensor", i) = << >>
            /\ FramesFor(i)[1].data = Msg("SENSOR_START_RESPONSE", << "OK" >>)
            /\ hlog[i].v[1] \notin {"DRIVING_STATUS", "NIGHT_DATA"} => hpc = "panic"

\* the audio frames dispatched, and the receive_audio calls made, in order
AudioFramesReceived ==
    SelectSeq(hlog, LAMBDA m : m.t = "AV_MEDIA_INDICATION" /\ m.channel_id \in {4, 5, 6})
AudioDelivered == SelectSeq(hcalls, LAMBDA c : c.call = "receive_audio")

\* the kind of audio a channel carries
KindOfChannel(chan) ==
    CASE chan = 4 -> "Media" [] chan = 5 -> "Speech" [] chan = 6 -> "System"

\* C30: every AV_MEDIA_INDICATION payload received on the media, speech or
\* system audio channel is delivered to receive_audio exactly once, tagged
\* with the kind of its channel, in arrival order.
C30_AudioDelivered ==
    /\ Len(AudioDelivered) = Len(AudioFramesReceived)
    /\ \A k \in DOMAIN AudioDelivered :
            AudioDelivered[k].arg
                = << KindOfChannel(AudioFramesReceived[k].channel_id),
                     AudioFramesReceived[k].v[1] >>

\* What holds: the calls of receive_audio are those of the speech channel's
\* frames, in arrival order, when audio output is supported.
SpeechAudioDelivered ==
    LET speech == SelectSeq(AudioFramesReceived,
                            LAMBDA m : m.channel_id = 5 /\ hcfg.audio_output)
    IN /\ Len(AudioDelivered) = Len(speech)
       /\ \A k \in DOMAIN speech : AudioDelivered[k].arg = << "Speech", speech[k].v[1] >>

---------------------------------------------------------------------------
(* Claims about opening a channel (SpecHandlers) *)

\* the CHANNEL_OPEN_REQUESTs dispatched on channel chan
OpenRequests(chan) ==
    {i \in DOMAIN hlog : hlog[i].t = "CHANNEL_OPEN_REQUEST" /\ hlog[i].channel_id = chan}

\* whether the integration offers what channel chan needs
Offers(chan) == IF chan = 3 THEN hcfg.video ELSE hcfg.audio_output

\* the integration's setup_video() / open_channel(kind) was called for
\* request i on channel chan and succeeded
OpenSucceeded(chan, i) ==
    IF chan = 3
    THEN \E k \in DOMAIN hcalls :
            hcalls[k].call = "setup_video" /\ hcalls[k].req = i /\ hcalls[k].arg = << TRUE >>
    ELSE \E k \in DOMAIN hcalls :
            /\ hcalls[k].call = "open_channel" /\ hcalls[k].req = i
            /\ hcalls[k].arg = << KindOfChannel(chan), TRUE >>

\* one CHANNEL_OPEN_RESPONSE on the request's channel, OK exactly when the
\* capability is offered and the call succeeded
OpenAnswered(chan, i) ==
    /\ Len(FramesFor(i)) = 1
    /\ FramesFor(i)[1].header.channel_id = chan
    /\ FramesFor(i)[1].data.t = "CHANNEL_OPEN_RESPONSE"
    /\ FramesFor(i)[1].data.v
            = << IF Offers(chan) /\ OpenSucceeded(chan, i) THEN "OK" ELSE "FAIL" >>

\* C31: for every CHANNEL_OPEN_REQUEST on the video channel and on the media,
\* speech and system audio channel exactly one CHANNEL_OPEN_RESPONSE is
\* written, with status OK if and only if the integration offers the
\* capability and its setup_video() / open_channel(kind) succeeded.
C31_OpenStatusFromIntegration ==
    \A chan \in {3, 4, 5, 6} : \A i \in OpenRequests(chan) : OpenAnswered(chan, i)

\* What holds: the video and the speech channel answer by the integration.
VideoAndSpeechOpenStatus ==
    \A chan \in {3, 5} : \A i \in OpenRequests(chan) : OpenAnswered(chan, i)

---------------------------------------------------------------------------
(* Claims about the AV-input handler (SpecHandlers) *)

\* the AV_INPUT_OPEN_REQUESTs dispatched
InputOpenRequests == {i \in DOMAIN hlog : hlog[i].t = "AV_INPUT_OPEN_REQUEST"}

\* the calls of open_channel and of close_channel made for request i
OpenCalls(i) == CallsFor("audio_input.open_channel", i)
CloseCalls(i) == CallsFor("audio_input.close_channel", i)

\* request i, the last dispatched, ended the session with error err
EndedWith(i, err) == i = Len(hlog) /\ hpc = "ended" /\ hresult = err

\* receive_data returned success for request i: the loop went on
ReturnedOk(i) == i = Len(hlog) => (hpc = "loop" /\ hresult = "running")

\* request i made exactly the call its open field asks for, and a failed call
\* ended the session with the error of that call
OpenOrCloseCalled(i) ==
    LET open == hlog[i].v[1]
    IN /\ Len(OpenCalls(i)) = (IF open THEN 1 ELSE 0)
       /\ Len(CloseCalls(i)) = (IF open THEN 0 ELSE 1)
       /\ (open /\ OpenCalls(i)[1].arg = << FALSE >>) => EndedWith(i, "AudioInputOpenError")
       /\ (~open /\ CloseCalls(i)[1].arg = << FALSE >>) => EndedWith(i, "AudioInputCloseError")
       /\ EndedWith(i, "AudioInputOpenError") => (open /\ OpenCalls(i)[1].arg = << FALSE >>)
       /\ EndedWith(i, "AudioInputCloseError") => (~open /\ CloseCalls(i)[1].arg = << FALSE >>)

\* C32 (as stated): every AV_INPUT_OPEN_REQUEST{open} calls open_channel when
\* open is true and close_channel when it is false, never both; a failed open
\* ends the session with AudioInputOpenError, a failed close with
\* AudioInputCloseError, and neither error appears for the other call.
C32_OpenOrCloseAlwaysCalled ==
    \A i \in InputOpenRequests : OpenOrCloseCalled(i)

\* C32 amended: with an integration that supports audio input, every
\* AV_INPUT_OPEN_REQUEST{open} calls open_channel when open is true and
\* close_channel when it is false, never both, a failed open ends the session
\* with AudioInputOpenError and a failed close with AudioInputCloseError;
\* without audio input the handler makes neither call, writes nothing and
\* returns success.
C32_OpenOrCloseWithAudioInput ==
    \A i \in InputOpenRequests :
        IF hcfg.audio_input
        THEN OpenOrCloseCalled(i)
        ELSE /\ OpenCalls(i) = << >>
             /\ CloseCalls(i) = << >>
             /\ FramesFor(i) = << >>
             /\ ReturnedOk(i)

\* a close that succeeded, then an open that failed and ended the session
C32_Witness ==
    /\ Len(hlog) = 2
    /\ hcfg.audio_input
    /\ hlog[1].t = "AV_INPUT_OPEN_REQUEST" /\ hlog[1].v = << FALSE >>
    /\ hlog[2].t = "AV_INPUT_OPEN_REQUEST" /\ hlog[2].v = << TRUE >>
    /\ Len(CloseCalls(1)) = 1
    /\ OpenCalls(2) # << >> /\ OpenCalls(2)[1].arg = << FALSE >>
    /\ hresult = "AudioInputOpenError"

---------------------------------------------------------------------------
(* Claims about the navigation handler (SpecNav) *)

\* the navigation messages dispatched
NavigationMessages ==
    {i \in DOMAIN hlog : hlog[i].channel_id = 9
                         /\ hlog[i].t \in {"STATUS", "TURN_EVENT", "DISTANCE_EVENT"}}

\* the callback a navigation message belongs to
MatchingCallback(t) ==
    CASE t = "STATUS" -> "nagivation_status"
      [] t = "TURN_EVENT" -> "turn_indication"
      [] t = "DISTANCE_EVENT" -> "distance_indication"

\* the calls of the navigation callbacks made for request i
NavigationCalls(i) ==
    SelectSeq(hcalls, LAMBDA c : c.req = i /\ c.call \in {"nagivation_status", "turn_indication",
                                                          "distance_indication"})

\* message i was passed once, to its own callback and to no other
PassedOnce(i) ==
    /\ Len(NavigationCalls(i)) = 1
    /\ NavigationCalls(i)[1].call = MatchingCallback(hlog[i].t)
    /\ NavigationCalls(i)[1].arg = hlog[i].v

\* C33: every STATUS, TURN_EVENT and DISTANCE_EVENT received on the
\* navigation channel is passed exactly once to the matching navigation
\* callback, after which receive returns success and the session goes on
\* reading the next frame.
C33_NavigationRouted ==
    \A i \in NavigationMessages : PassedOnce(i) /\ ReturnedOk(i)

\* What holds: with navigation supported the message is passed once to its
\* callback, without navigation to none, and in both cases the handler then
\* panics instead of returning.
NavigationCallbackThenPanic ==
    \A i \in NavigationMessages :
        /\ IF hcfg.navigation THEN PassedOnce(i) ELSE NavigationCalls(i) = << >>
        /\ i = Len(hlog)
        /\ hpc = "panic"

---------------------------------------------------------------------------
(* Claims about a shutdown request that is not a QUIT (Spec) *)

\* the step dispatches a SHUTDOWN_REQUEST whose reason is not QUIT
OtherShutdownDispatched ==
    /\ Len(rxlog') = Len(rxlog) + 1
    /\ rxlog'[Len(rxlog')].t = "SHUTDOWN_REQUEST"
    /\ rxlog'[Len(rxlog')].v # << "QUIT" >>

\* C38: a SHUTDOWN_REQUEST whose reason is not QUIT changes nothing: no frame
\* is written, the handler returns success and the session is reading frames
\* in the state it had before.
C38_OtherShutdownChangesNothing ==
    [][OtherShutdownDispatched =>
            /\ wire' = wire
            /\ pc = "loop" /\ pc' = "loop"
            /\ result' = result
            /\ ssl_client' = ssl_client
            /\ handshake_starts' = handshake_starts
            /\ video_session' = video_session
            /\ channels' = channels
            /\ channel_handlers' = channel_handlers]_vars

\* a shutdown request with another reason was dispatched in a session that
\* had written frames, and the loop dispatched a further message after it
C38_Witness ==
    /\ \E i \in DOMAIN rxlog :
        /\ rxlog[i].t = "SHUTDOWN_REQUEST" /\ rxlog[i].v # << "QUIT" >>
        /\ i > 1
        /\ i < Len(rxlog)
    /\ Len(wire) >= 2
    /\ pc = "loop"

---------------------------------------------------------------------------
(* Claims about fragments outside a First..Last sequence (SpecRx) *)

\* the Firsts before frame e that no Last has finished and no later First
\* has replaced
PendingFirst(e) ==
    {f \in 1..(e - 1) :
        /\ sentlog[f].ftype = First
        /\ \A j \in (f + 1)..(e - 1) : sentlog[j].ftype \notin {First, Last}}

\* the fragments from frame f up to frame e
FragmentsFrom(f, e) ==
    SelectSeq([i \in 1..(e - f + 1) |-> f + i - 1], LAMBDA j : sentlog[j].ftype # Single)

\* C39: a Last that arrives while no First is pending delivers no message
\* (nor does a Middle), and a First starts a fresh message: a message
\* delivered at a Last holds the fragments from the latest First to that Last
\* and no bytes of a fragment outside that sequence.
C39_OnlySequencesDelivered ==
    \A k \in DOMAIN delivered :
        LET m == delivered[k]
            e == CompletedBy(m)
        IN sentlog[e].ftype # Single =>
            /\ sentlog[e].ftype = Last
            /\ PendingFirst(e) # {}
            /\ \A f \in PendingFirst(e) :
                    m.frame.data
                        = Flatten([i \in DOMAIN FragmentsFrom(f, e)
                                        |-> sentlog[FragmentsFrom(f, e)[i]].payload])

\* What holds: a message delivered at a Last holds every fragment received
\* since the previous Last, whatever its type and wherever a First stood.
DeliversAllSincePreviousLast ==
    \A k \in DOMAIN delivered :
        LET m == delivered[k]
            e == CompletedBy(m)
            prev == {j \in 1..(e - 1) : sentlog[j].ftype = Last}
            from == IF prev = {} THEN 1 ELSE 1 + CHOOSE j \in prev : \A x \in prev : x <= j
        IN sentlog[e].ftype # Single =>
            /\ sentlog[e].ftype = Last
            /\ m.frame.data
                    = Flatten([i \in DOMAIN FragmentsFrom(from, e)
                                    |-> sentlog[FragmentsFrom(from, e)[i]].payload])

---------------------------------------------------------------------------
(* Claims about frame alignment (SpecAlign) *)

\* the bytes of the first n frames the peer wrote
RECURSIVE BytesSent(_)
BytesSent(n) ==
    IF n = 0 THEN 0
    ELSE BytesSent(n - 1) + Len(PeerWire(sentlog[n].channel_id, sentlog[n].ftype,
                                        sentlog[n].enc, sentlog[n].payload))

\* the offsets on the transport at which a frame starts
FrameStarts == {BytesSent(k) : k \in 0..Len(sentlog)}

\* the offset of the byte the next iteration of the loop takes for a
\* channel_id
ReadOffset == BytesSent(Len(sentlog)) - Len(stream)

\* C34: the loop stays frame-aligned whatever the channel_id byte: the next
\* byte it takes for a channel_id is the first byte of a frame, also after a
\* frame whose channel_id byte is no known channel.
C34_FrameAligned == ReadOffset \in FrameStarts

\* What holds: the loop is aligned as long as every frame received carried a
\* channel_id byte that is a value of ChannelId.
AlignedOnKnownChannels ==
    (\A i \in DOMAIN sentlog : sentlog[i].channel_id \in KnownChannelIds) => C34_FrameAligned

---------------------------------------------------------------------------
(* Claims about the length field (SpecEnc) *)

\* the value of the 16-bit length field of the encoded frame b, and the bytes
\* that follow the field
LengthField(b) == U16FromBE(b[3], b[4])
BytesAfterLength(b) == Len(b) - 4

\* C35: in every frame the encoder emits, plain or encrypted, the 16-bit
\* length field equals the number of payload bytes that follow it; no frame
\* a handler builds is written with its length truncated modulo 2^16.
C35_LengthFieldIsPayloadLength ==
    \A i \in DOMAIN ebytes : LengthField(ebytes[i]) = BytesAfterLength(ebytes[i])

\* What holds: the field is the number of bytes that follow modulo 2^16, and
\* equals it when fewer than 2^16 bytes follow.
LengthFieldModulo ==
    \A i \in DOMAIN ebytes :
        /\ LengthField(ebytes[i]) = BytesAfterLength(ebytes[i]) % 65536
        /\ BytesAfterLength(ebytes[i]) < 65536
                => LengthField(ebytes[i]) = BytesAfterLength(ebytes[i])

---------------------------------------------------------------------------
(* Claims about the order of TLS records (SpecMux) *)

\* task t, holding the writer, is granted the TLS engine and encodes its
\* frame: the engine produces the frame's TLS records in this step
Encrypts(t) == task_pc[t] = "w_second" /\ task_pc'[t] = "w_write"

\* C36: TLS records reach the wire in the order the TLS engine produced them:
\* when a producer encrypts its frame, every frame encrypted before it is on
\* the wire whole and no byte of its own or of a later frame is, so no frame
\* encrypted later is written before it.
C36_RecordsInEngineOrder ==
    [][\A t \in Tasks :
            Encrypts(t) =>
                /\ Len(mux_wire) = (task_frame[t] - 1) * FrameBytes
                /\ \A i \in DOMAIN mux_wire : mux_wire[i][1] < task_frame[t]
                /\ \A u \in Tasks \ {t} : task_pc[u] # "w_write"]_vars

\* the second frame has just been encrypted by a task other than the first
\* frame's, whose bytes are on the wire, while a third producer waits for the
\* writer
C36_Witness ==
    \E t \in Tasks : \E u \in Tasks \ {t} :
        /\ task_pc[t] = "w_write"
        /\ task_frame[t] = 2
        /\ task_pos[t] = 0
        /\ granted[1] # t
        /\ Len(mux_wire) = FrameBytes
        /\ task_pc[u] = "w_first"

---------------------------------------------------------------------------
(* Claims about keepalive (SpecLive) *)

\* the peer has written a PING_REQUEST with timestamp k
PingWritten(k) ==
    \/ \E i \in DOMAIN inbox : inbox[i].t = "PING_REQUEST" /\ inbox[i].v = << I64(0, 0, 0, k) >>
    \/ \E i \in DOMAIN hlog : hlog[i].t = "PING_REQUEST" /\ hlog[i].v = << I64(0, 0, 0, k) >>

\* the PING_RESPONSE to the request with timestamp k is on the wire
PingResponded(k) ==
    \E i \in DOMAIN hwire :
        hwire[i].frame = PingResponse_into(wrapping_add_one(I64(0, 0, 0, k)))

\* C37: keepalive is live: every PING_REQUEST the peer writes is eventually
\* answered by its PING_RESPONSE, also when an AV_SETUP_REQUEST on the video
\* channel was received before it and wait_for_focus has not returned.
C37_PingEventuallyAnswered ==
    \A k \in 1..MaxSent : PingWritten(k) ~> PingResponded(k)

====
